---- MODULE Spec2Model ----
(***************************************************************************)
(* Model of InventoryBatchSubmissionController (src/main.py): the batch    *)
(* submission engine over the record store (sale.person,                   *)
(* inventory.projects, stock.production.lot, inventory.submission,         *)
(* inventory.scan.line).                                                   *)
(*                                                                         *)
(* Encoding of request values: a record id is a positive integer; 0 is a   *)
(* falsy value (absent key, None, False, 0); NoValue is Python None where  *)
(* None differs from 0 (scanned_qty); Malformed is a string that int() or  *)
(* float() rejects with ValueError.                                        *)
(***************************************************************************)
EXTENDS Integers, Sequences, FiniteSets, TLC

VARIABLES
    token,                \* sale.person.token_for_sale_person, per agent
    issued_tokens,        \* the token values an agent holds or has held
    project_state,        \* inventory.projects.state, per project
    submissions,          \* inventory.submission rows, id -> record
    scan_lines,           \* inventory.scan.line rows, id -> record
    next_submission_id,   \* id sequence of inventory.submission
    next_scan_line_id,    \* id sequence of inventory.scan.line
    clock,                \* the store's current time
    req,                  \* the request being answered
    resp,                 \* the response envelope returned for req
    inflight              \* per agent, a create_submission call in progress

vars == <<token, issued_tokens, project_state, submissions, scan_lines,
          next_submission_id, next_scan_line_id, clock, req, resp, inflight>>

store == <<submissions, scan_lines, next_submission_id, next_scan_line_id>>

-----------------------------------------------------------------------------
(* Bounds *)

MaxSubmissions == 3
MaxClock == 2
MaxBatch == 2             \* longest scan-line list of a request
MaxBatchSubmissions == 2  \* submissions created under SpecBatch
MaxScanLines == 3         \* scan-line ids handed out under SpecEdit
MaxLimit == 2             \* largest limit of a listing request
MaxOffset == 3            \* largest offset of a listing request
MaxTokens == 5            \* token values secrets.token_hex can draw from
MaxMessages == 1          \* messages posted on a submission under SpecItems

-----------------------------------------------------------------------------
(* Request value encoding *)

NoValue == -100
Malformed == -200

-----------------------------------------------------------------------------
(* Master data (external to the controller) *)

\* agent 3 has never logged in and holds no token
SalePersons == {1, 2, 3}
SalePersonName == [a \in SalePersons |-> IF a = 1 THEN "Ann" ELSE IF a = 2 THEN "Bob" ELSE "Cy"]
SalePersonPhone == [a \in SalePersons |-> 100 + a]
SalePersonPin == [a \in SalePersons |-> 200 + a]

\* project 3 has no location (0); project 4 is the project that is not running
Projects == {1, 2, 3, 4}
ProjectLocation == [p \in Projects |-> IF p = 2 THEN 2 ELSE IF p = 3 THEN 0 ELSE 1]

Products == {1, 2}
Lots == {1, 2, 3, 4}
LotProduct == [l \in Lots |-> IF l \in {1, 2} THEN 1 ELSE 2]
LotName == [l \in Lots |-> IF l = 1 THEN "L1" ELSE IF l = 2 THEN "L2"
                                       ELSE IF l = 3 THEN "L3" ELSE "L1"]
Racks == {1, 2}
Locations == {1, 2}

\* the stock ledger (stock_quant): lot 1 has two entries at location 1, one
\* at location 2 and one booked under another product; lot 2 has one entry;
\* lot 3 has none; the entries of lot 4 cancel out
StockQuant(product_id, lot_id, location_id, quantity) ==
    [product_id |-> product_id, lot_id |-> lot_id, location_id |-> location_id,
     quantity |-> quantity]

StockQuants ==
    <<StockQuant(1, 1, 1, 4), StockQuant(1, 1, 1, 3), StockQuant(1, 1, 2, 10),
      StockQuant(2, 1, 1, 100), StockQuant(1, 2, 1, 6), StockQuant(2, 4, 1, 2),
      StockQuant(2, 4, 1, -2)>>

Min(S) == CHOOSE x \in S : \A y \in S : x <= y

\* search([('name', '=', lot_name)], limit=1): first lot in id order, 0 if none
LotByName(lot_name) ==
    LET found == {l \in Lots : LotName[l] = lot_name}
    IN  IF found = {} THEN 0 ELSE Min(found)

-----------------------------------------------------------------------------
(* Identity resolver *)

\* the agent holding api_token, 0 when the token is missing or held by nobody
authenticate_sale_person(api_token) ==
    LET found == {a \in SalePersons : token[a] = api_token}
    IN  IF api_token = 0 THEN 0
        ELSE IF found = {} THEN 0
        ELSE Min(found)

AuthError(api_token) ==
    IF api_token = 0 THEN "Authentication token is required"
    ELSE "Invalid authentication token"

\* what _authenticate_sale_person returns: (sale_person, user_id, error_response)
AuthResult(api_token) ==
    <<authenticate_sale_person(api_token), 0,
      IF authenticate_sale_person(api_token) = 0 THEN AuthError(api_token) ELSE "">>

-----------------------------------------------------------------------------
(* Response envelope *)

NoResults == [added |-> <<>>, updated |-> <<>>, removed |-> <<>>, errors |-> <<>>]

NoPagination == [total_count |-> 0, limit |-> 0, offset |-> 0, has_more |-> FALSE]

EmptyResp ==
    [op |-> "none", success |-> FALSE, error |-> "",
     submission_id |-> 0, scan_lines |-> <<>>, has_scan_lines |-> FALSE,
     is_reinventory |-> FALSE, previous_submission_id |-> 0,
     results |-> NoResults, submissions |-> <<>>, pagination |-> NoPagination,
     api_token |-> 0, sale_person_id |-> 0, data |-> <<>>, has_previous |-> FALSE]

Failure(op, error) == [EmptyResp EXCEPT !.op = op, !.error = error]

NoReq == [op |-> "none"]

-----------------------------------------------------------------------------
(* Session handlers: login, logout, refresh_token *)

\* secrets.token_hex(16): a value no agent holds or has held
FreshTokens == (11..(10 + MaxTokens)) \ issued_tokens

\* sale_person.write({'token_for_sale_person': new_token})
WriteToken(sale_person, new_token) ==
    /\ token' = [token EXCEPT ![sale_person] = new_token]
    /\ issued_tokens' = issued_tokens \cup {new_token}

login(mobile_phone, pin) ==
    LET found == {a \in SalePersons : SalePersonPhone[a] = mobile_phone}
        sale_person == IF found = {} THEN 0 ELSE Min(found)
    IN  /\ req' = [op |-> "login", mobile_phone |-> mobile_phone, pin |-> pin]
        /\ UNCHANGED <<project_state, inflight, clock, store>>
        /\ IF mobile_phone = 0 \/ pin = 0
           THEN /\ resp' = Failure("login", "Mobile phone and PIN are required")
                /\ UNCHANGED <<token, issued_tokens>>
           ELSE IF sale_person = 0
           THEN /\ resp' = Failure("login",
                        "Sale person not found with the provided mobile phone number")
                /\ UNCHANGED <<token, issued_tokens>>
           ELSE IF SalePersonPin[sale_person] # pin
           THEN /\ resp' = Failure("login", "Invalid PIN")
                /\ UNCHANGED <<token, issued_tokens>>
           ELSE IF token[sale_person] = 0
           THEN \E new_token \in FreshTokens :
                    /\ WriteToken(sale_person, new_token)
                    /\ resp' = [EmptyResp EXCEPT !.op = "login", !.success = TRUE,
                                                 !.api_token = new_token,
                                                 !.sale_person_id = sale_person]
           ELSE /\ UNCHANGED <<token, issued_tokens>>
                /\ resp' = [EmptyResp EXCEPT !.op = "login", !.success = TRUE,
                                             !.api_token = token[sale_person],
                                             !.sale_person_id = sale_person]

\* mutant: logout answers without writing the new token
logout_KeepsToken(api_token) ==
    /\ req' = [op |-> "logout", api_token |-> api_token]
    /\ UNCHANGED <<project_state, inflight, clock, store, token, issued_tokens>>
    /\ resp' = IF authenticate_sale_person(api_token) = 0
               THEN Failure("logout", AuthError(api_token))
               ELSE [EmptyResp EXCEPT !.op = "logout", !.success = TRUE]

logout(api_token) ==
    /\ req' = [op |-> "logout", api_token |-> api_token]
    /\ UNCHANGED <<project_state, inflight, clock, store>>
    /\ IF authenticate_sale_person(api_token) = 0
       THEN /\ resp' = Failure("logout", AuthError(api_token))
            /\ UNCHANGED <<token, issued_tokens>>
       ELSE \E new_token \in FreshTokens :
                /\ WriteToken(authenticate_sale_person(api_token), new_token)
                /\ resp' = [EmptyResp EXCEPT !.op = "logout", !.success = TRUE]

refresh_token(api_token) ==
    /\ req' = [op |-> "refresh_token", api_token |-> api_token]
    /\ UNCHANGED <<project_state, inflight, clock, store>>
    /\ IF authenticate_sale_person(api_token) = 0
       THEN /\ resp' = Failure("refresh_token", AuthError(api_token))
            /\ UNCHANGED <<token, issued_tokens>>
       ELSE \E new_token \in FreshTokens :
                /\ WriteToken(authenticate_sale_person(api_token), new_token)
                /\ resp' = [EmptyResp EXCEPT !.op = "refresh_token", !.success = TRUE,
                                             !.api_token = new_token]

-----------------------------------------------------------------------------
(* Records *)

SubmissionName(id) == <<"SUB", id>>

NoteText(t) == [kind |-> "text", lot |-> "", ref |-> <<>>, text |-> t]
NoteReinventory(ref) == [kind |-> "reinventory", lot |-> "", ref |-> ref, text |-> ""]
NoteAutoDetected(lot_name, ref) == [kind |-> "auto", lot |-> lot_name, ref |-> ref, text |-> ""]

\* notes as a sequence of parts; the empty string is the empty sequence
UserNotes(notes) == IF notes = "" THEN <<>> ELSE <<NoteText(notes)>>

LineNotes(sale_person, line_notes) == [agent |-> SalePersonName[sale_person], text |-> line_notes]

LinesOf(lines, submission_id) == {l \in DOMAIN lines : lines[l].submission_id = submission_id}

-----------------------------------------------------------------------------
(* create_submission: validate phase *)

\* mutant: the quantity is not required
RequiredMissing_NoQuantityTest(scan_data) ==
    scan_data.lot_name = "" /\ scan_data.lot_id = 0

\* a scan-line request: [lot_id, lot_name, scanned_qty, has_rack, rack_id, notes]
RequiredMissing(scan_data) ==
    \/ (scan_data.lot_name = "" /\ scan_data.lot_id = 0)
    \/ scan_data.scanned_qty = NoValue

\* browse(int(lot_id)) when lot_id is given, else search by name; 0 when
\* nothing is found
ResolveLot(lot_id, lot_name) ==
    IF lot_id # 0 THEN (IF lot_id \in Lots THEN lot_id ELSE 0)
    ELSE IF lot_name # "" THEN LotByName(lot_name)
    ELSE 0

LineResult(scan_data) ==
    [lot_name |-> scan_data.lot_name, lot_id |-> scan_data.lot_id,
     success |-> FALSE, error |-> "", product_id |-> 0, scan_id |-> 0]

ValidateLine(scan_data) ==
    IF RequiredMissing(scan_data)
    THEN [LineResult(scan_data) EXCEPT
            !.error = "Lot information and scanned quantity are required"]
    ELSE IF ResolveLot(scan_data.lot_id, scan_data.lot_name) = 0
    THEN [LineResult(scan_data) EXCEPT !.error = "Lot not found"]
    ELSE [LineResult(scan_data) EXCEPT
            !.success = TRUE,
            !.product_id = LotProduct[ResolveLot(scan_data.lot_id, scan_data.lot_name)]]

\* int(lot_id) raises ValueError on a line that passed the required-field test
LotIdRaises(scan_data) ==
    ~RequiredMissing(scan_data) /\ scan_data.lot_id = Malformed

\* mutant: validation gives up after the first invalid line
ValidationResults_StopAtFirstInvalid(scan_lines_arg) ==
    [i \in 1..Len(scan_lines_arg) |->
        IF \E j \in 1..(i - 1) : ~ValidateLine(scan_lines_arg[j]).success
        THEN LineResult(scan_lines_arg[i])
        ELSE ValidateLine(scan_lines_arg[i])]

ValidationResults(scan_lines_arg) ==
    [i \in 1..Len(scan_lines_arg) |-> ValidateLine(scan_lines_arg[i])]

AllValid(scan_lines_arg) ==
    \A i \in 1..Len(scan_lines_arg) : ValidateLine(scan_lines_arg[i]).success

-----------------------------------------------------------------------------
(* create_submission: link phase *)

\* mutant: the state of the submission is not part of the domain
PreviousSubmissions_AnyState(lot, location) ==
    {s \in DOMAIN submissions :
        /\ \E l \in LinesOf(scan_lines, s) : scan_lines[l].lot_id = lot
        /\ (location # 0 => ProjectLocation[submissions[s].project_id] = location)}

\* search([('state','=','validated'), ('scan_line_ids.lot_id','=',lot)]
\*        [+ ('project_location_id','=',location)]); location 0 = no filter
PreviousSubmissions(lot, location) ==
    {s \in DOMAIN submissions :
        /\ submissions[s].state = "validated"
        /\ \E l \in LinesOf(scan_lines, s) : scan_lines[l].lot_id = lot
        /\ (location # 0 => ProjectLocation[submissions[s].project_id] = location)}

\* mutant: the search is ordered ascending
MostRecent_Oldest(found) ==
    {s \in found : \A t \in found :
        submissions[s].validation_datetime <= submissions[t].validation_datetime}

\* order='validation_datetime DESC', limit=1: a first row of that order
MostRecent(found) ==
    {s \in found : \A t \in found :
        submissions[t].validation_datetime <= submissions[s].validation_datetime}

NoLink(notes) ==
    [previous_submission_id |-> 0, notes |-> UserNotes(notes), product_id |-> 0]

Linked(notes, prev, note) ==
    [previous_submission_id |-> prev,
     notes |-> UserNotes(notes) \o <<note>>,
     product_id |-> submissions[prev].product_id]

\* mutant: the state of the referenced submission is not tested
ExplicitLink_AnyState(notes, previous_submission_id) ==
    IF /\ previous_submission_id # Malformed
       /\ previous_submission_id \in DOMAIN submissions
    THEN {Linked(notes, previous_submission_id,
                 NoteReinventory(submissions[previous_submission_id].name))}
    ELSE {NoLink(notes)}

ExplicitLink(notes, previous_submission_id) ==
    IF /\ previous_submission_id # Malformed
       /\ previous_submission_id \in DOMAIN submissions
       /\ submissions[previous_submission_id].state = "validated"
    THEN {Linked(notes, previous_submission_id,
                 NoteReinventory(submissions[previous_submission_id].name))}
    ELSE {NoLink(notes)}

AutoDetectLink(project_id, notes, scanned_lot_name) ==
    LET lot == LotByName(scanned_lot_name)
        found == PreviousSubmissions(lot, ProjectLocation[project_id])
    IN  IF lot = 0 \/ found = {} THEN {NoLink(notes)}
        ELSE {Linked(notes, s, NoteAutoDetected(scanned_lot_name, submissions[s].name)) :
                s \in MostRecent(found)}

\* mutant: the lot-name hint is tried before the explicit reference
LinkChoices_HintFirst(project_id, notes, previous_submission_id, scanned_lot_name) ==
    IF scanned_lot_name # ""
    THEN AutoDetectLink(project_id, notes, scanned_lot_name)
    ELSE IF previous_submission_id # 0
    THEN ExplicitLink(notes, previous_submission_id)
    ELSE {NoLink(notes)}

\* the values the link phase may leave in submission_vals
LinkChoices(project_id, notes, previous_submission_id, scanned_lot_name) ==
    IF previous_submission_id # 0
    THEN ExplicitLink(notes, previous_submission_id)
    ELSE IF scanned_lot_name # ""
    THEN AutoDetectLink(project_id, notes, scanned_lot_name)
    ELSE {NoLink(notes)}

-----------------------------------------------------------------------------
(* create_submission: product homogeneity and rack *)

ProductIds(scan_lines_arg) ==
    {LotProduct[ResolveLot(scan_lines_arg[i].lot_id, scan_lines_arg[i].lot_name)] :
        i \in 1..Len(scan_lines_arg)}

\* product_id of submission_vals: the link phase's value unless the lines
\* have exactly one product
SubmissionProduct(link, scan_lines_arg) ==
    IF Cardinality(ProductIds(scan_lines_arg)) = 1
    THEN CHOOSE p \in ProductIds(scan_lines_arg) : TRUE
    ELSE link.product_id

SubmissionRack(rack_id) ==
    IF rack_id # 0 /\ rack_id \in Racks THEN rack_id ELSE 0

\* mutant: a linked submission is stored as its own predecessor
SubmissionVals_SelfLink(id, project_id, sale_person, rack_id, link, scan_lines_arg) ==
    [name |-> SubmissionName(id),
     project_id |-> project_id,
     sale_person_id |-> sale_person,
     product_id |-> SubmissionProduct(link, scan_lines_arg),
     rack_id |-> SubmissionRack(rack_id),
     previous_submission_id |-> IF link.previous_submission_id # 0 THEN id ELSE 0,
     notes |-> link.notes,
     state |-> "draft",
     validation_datetime |-> 0,
     messages |-> <<>>]

\* submission_vals as handed to create()
SubmissionVals(id, project_id, sale_person, rack_id, link, scan_lines_arg) ==
    [name |-> SubmissionName(id),
     project_id |-> project_id,
     sale_person_id |-> sale_person,
     product_id |-> SubmissionProduct(link, scan_lines_arg),
     rack_id |-> SubmissionRack(rack_id),
     previous_submission_id |-> link.previous_submission_id,
     notes |-> link.notes,
     state |-> "draft",
     validation_datetime |-> 0,
     messages |-> <<>>]

-----------------------------------------------------------------------------
(* create_submission: commit phase *)

\* scan_data.get('rack_id', rack_id): the line's own key, else the request's
ScanLineRack(scan_data, rack_id) ==
    IF scan_data.has_rack THEN scan_data.rack_id ELSE rack_id

\* float(scanned_qty) or int(line_rack_id) raises ValueError
ScanLineRaises(scan_data, rack_id) ==
    \/ scan_data.scanned_qty = Malformed
    \/ ScanLineRack(scan_data, rack_id) = Malformed

\* create() with a rack id that names no rack: the store rejects the row
\* and aborts the transaction
ScanLineRejected(scan_data, rack_id) ==
    /\ ScanLineRack(scan_data, rack_id) # 0
    /\ ScanLineRack(scan_data, rack_id) \notin Racks

ScanLineVals(submission_id, project_id, sale_person, scan_data, rack_id, state) ==
    [submission_id |-> submission_id,
     project_id |-> project_id,
     product_id |-> LotProduct[ResolveLot(scan_data.lot_id, scan_data.lot_name)],
     lot_id |-> ResolveLot(scan_data.lot_id, scan_data.lot_name),
     lot_name |-> scan_data.lot_name,
     scanned_qty |-> scan_data.scanned_qty,
     rack_id |-> ScanLineRack(scan_data, rack_id),
     sale_person_id |-> sale_person,
     notes |-> LineNotes(sale_person, scan_data.notes),
     state |-> state]

\* index of the first line whose creation fails, 0 when every line is created
FirstFailing(scan_lines_arg, rack_id) ==
    LET failing == {i \in 1..Len(scan_lines_arg) :
                        \/ ScanLineRaises(scan_lines_arg[i], rack_id)
                        \/ ScanLineRejected(scan_lines_arg[i], rack_id)}
    IN  IF failing = {} THEN 0 ELSE Min(failing)

\* mutant: the loop misses the last line
CreatedLines_DropLast(first_id, n, submission_id, project_id, sale_person, scan_lines_arg, rack_id) ==
    [id \in first_id .. (first_id + n - 2) |->
        ScanLineVals(submission_id, project_id, sale_person,
                     scan_lines_arg[id - first_id + 1], rack_id, "draft")]

\* the rows of the first n lines of the request, created in input order
CreatedLines(first_id, n, submission_id, project_id, sale_person, scan_lines_arg, rack_id) ==
    [id \in first_id .. (first_id + n - 1) |->
        ScanLineVals(submission_id, project_id, sale_person,
                     scan_lines_arg[id - first_id + 1], rack_id, "draft")]

\* the model's action_submit: the submission and its lines become submitted
action_submit(rows, lines, submission_id) ==
    [submissions |-> [rows EXCEPT ![submission_id].state = "submitted"],
     scan_lines |-> [l \in DOMAIN lines |->
                        IF lines[l].submission_id = submission_id
                        THEN [lines[l] EXCEPT !.state = "submitted"]
                        ELSE lines[l]]]

\* validation_results with the created ids filled in, in input order
ScanLineResults(scan_lines_arg, first_id) ==
    [i \in 1..Len(scan_lines_arg) |->
        [ValidateLine(scan_lines_arg[i]) EXCEPT !.scan_id = first_id + i - 1]]

CreateResponse(submission, submission_id, scan_lines_arg, first_id, previous_submission_id) ==
    [EmptyResp EXCEPT
        !.op = "create_submission",
        !.success = TRUE,
        !.submission_id = submission_id,
        !.scan_lines = ScanLineResults(scan_lines_arg, first_id),
        !.has_scan_lines = TRUE,
        !.is_reinventory = (previous_submission_id # 0 /\ submission.previous_submission_id # 0),
        !.previous_submission_id =
            IF previous_submission_id # 0 THEN submission.previous_submission_id ELSE 0]

\* mutant: the project's state is not tested
CreateEarlyError_NoProjectState(api_token, project_id, scan_lines_arg) ==
    IF project_id = 0 \/ Len(scan_lines_arg) = 0
    THEN "Project ID and scan lines are required"
    ELSE IF authenticate_sale_person(api_token) = 0 THEN AuthError(api_token)
    ELSE IF project_id = Malformed THEN "exception"
    ELSE IF project_id \notin Projects THEN "Project not found"
    ELSE IF \E i \in 1..Len(scan_lines_arg) :
                /\ LotIdRaises(scan_lines_arg[i])
                /\ \A j \in 1..(i - 1) : ~LotIdRaises(scan_lines_arg[j])
    THEN "exception"
    ELSE ""

\* the checks made before any line is validated; "" when all pass
CreateEarlyError(api_token, project_id, scan_lines_arg) ==
    IF project_id = 0 \/ Len(scan_lines_arg) = 0
    THEN "Project ID and scan lines are required"
    ELSE IF authenticate_sale_person(api_token) = 0 THEN AuthError(api_token)
    ELSE IF project_id = Malformed THEN "exception"
    ELSE IF project_id \notin Projects THEN "Project not found"
    ELSE IF project_state[project_id] # "in_progress" THEN "Project is not in progress"
    ELSE IF \E i \in 1..Len(scan_lines_arg) :
                /\ LotIdRaises(scan_lines_arg[i])
                /\ \A j \in 1..(i - 1) : ~LotIdRaises(scan_lines_arg[j])
    THEN "exception"
    ELSE ""

\* rows written by the commit phase for one choice of the link phase
Commit(sale_person, project_id, rack_id, scan_lines_arg, previous_submission_id, link) ==
    LET id == next_submission_id
        first_id == next_scan_line_id
        k == FirstFailing(scan_lines_arg, rack_id)
        n == IF k = 0 THEN Len(scan_lines_arg) ELSE k - 1
        row == SubmissionVals(id, project_id, sale_person, rack_id, link, scan_lines_arg)
        rows == submissions @@ (id :> row)
        lines == scan_lines @@
                    CreatedLines(first_id, n, id, project_id, sale_person, scan_lines_arg, rack_id)
        submitted == action_submit(rows, lines, id)
    IN  IF k = 0
        THEN [submissions |-> submitted.submissions,
              scan_lines |-> submitted.scan_lines,
              next_submission_id |-> id + 1,
              next_scan_line_id |-> first_id + n,
              resp |-> CreateResponse(submitted.submissions[id], id, scan_lines_arg,
                                      first_id, previous_submission_id)]
        ELSE IF ScanLineRaises(scan_lines_arg[k], rack_id)
        \* the handler catches the exception and returns normally: the rows
        \* written so far stay
        THEN [submissions |-> rows,
              scan_lines |-> lines,
              next_submission_id |-> id + 1,
              next_scan_line_id |-> first_id + n,
              resp |-> Failure("create_submission", "exception")]
        \* the store aborted the transaction: nothing of it stays
        ELSE [submissions |-> submissions,
              scan_lines |-> scan_lines,
              next_submission_id |-> id + 1,
              next_scan_line_id |-> first_id + n,
              resp |-> Failure("create_submission", "exception")]

create_submission(api_token, project_id, rack_id, notes, scan_lines_arg, previous_submission_id, scanned_lot_name) ==
    /\ next_submission_id <= MaxSubmissions
    /\ req' = [op |-> "create_submission", api_token |-> api_token,
               project_id |-> project_id, rack_id |-> rack_id, notes |-> notes,
               scan_lines |-> scan_lines_arg,
               previous_submission_id |-> previous_submission_id,
               scanned_lot_name |-> scanned_lot_name]
    /\ UNCHANGED <<token, issued_tokens, project_state, inflight, clock>>
    /\ IF CreateEarlyError(api_token, project_id, scan_lines_arg) # ""
       THEN /\ resp' = Failure("create_submission",
                               CreateEarlyError(api_token, project_id, scan_lines_arg))
            /\ UNCHANGED store
       ELSE IF ~AllValid(scan_lines_arg)
       THEN /\ resp' = [Failure("create_submission",
                                "All scan lines must be valid to create a submission")
                            EXCEPT !.scan_lines = ValidationResults(scan_lines_arg),
                                   !.has_scan_lines = TRUE]
            /\ UNCHANGED store
       ELSE IF rack_id = Malformed
       THEN /\ resp' = Failure("create_submission", "exception")
            /\ UNCHANGED store
       ELSE \E link \in LinkChoices(project_id, notes, previous_submission_id, scanned_lot_name) :
              LET out == Commit(authenticate_sale_person(api_token), project_id, rack_id,
                                scan_lines_arg, previous_submission_id, link)
              IN  /\ submissions' = out.submissions
                  /\ scan_lines' = out.scan_lines
                  /\ next_submission_id' = out.next_submission_id
                  /\ next_scan_line_id' = out.next_scan_line_id
                  /\ resp' = out.resp

-----------------------------------------------------------------------------
(* create_submission, statement by statement: two calls in flight at once. *)
(* Each call runs in its own transaction: the ids come from the shared     *)
(* sequences when a row is created, the rows become visible to others when *)
(* the handler returns.                                                    *)

\* the agents that may have a call in flight
Requesters == {1, 2}

Idle ==
    [pc |-> "idle", api_token |-> 0, project_id |-> 0, rack_id |-> 0,
     scan_lines |-> <<>>, submission_id |-> 0, line_ids |-> <<>>,
     rows |-> <<>>, lines |-> <<>>, resp |-> EmptyResp,
     op |-> "", strict |-> FALSE, i |-> 0, results |-> NoResults,
     sale_person |-> 0]

\* the handler returns resp; the rows it leaves are those of committed
Returned(call, resp_) == [call EXCEPT !.pc = "done", !.resp = resp_]

\* mutant: the line is attached to the submission created last by anyone
OwnSubmission_Latest(a) == next_submission_id - 1

\* submission.id: the local variable of the call
OwnSubmission(a) == inflight[a].submission_id

\* lines 219-376: the checks, the validate phase, the link phase and the
\* creation of the submission row
CreateBegin(a, project_id, scan_lines_arg) ==
    LET api_token == token[a]
    IN  /\ inflight[a].pc = "idle"
        /\ UNCHANGED <<token, issued_tokens, project_state, clock, req, resp,
                       submissions, scan_lines, next_scan_line_id>>
        /\ IF CreateEarlyError(api_token, project_id, scan_lines_arg) # ""
           THEN /\ inflight' = [inflight EXCEPT ![a] =
                       Returned([Idle EXCEPT !.api_token = api_token,
                                             !.project_id = project_id,
                                             !.scan_lines = scan_lines_arg],
                                Failure("create_submission",
                                        CreateEarlyError(api_token, project_id,
                                                         scan_lines_arg)))]
                /\ UNCHANGED next_submission_id
           ELSE IF ~AllValid(scan_lines_arg)
           THEN /\ inflight' = [inflight EXCEPT ![a] =
                       Returned([Idle EXCEPT !.api_token = api_token,
                                             !.project_id = project_id,
                                             !.scan_lines = scan_lines_arg],
                                [Failure("create_submission",
                                         "All scan lines must be valid to create a submission")
                                    EXCEPT !.scan_lines = ValidationResults(scan_lines_arg),
                                           !.has_scan_lines = TRUE])]
                /\ UNCHANGED next_submission_id
           ELSE \E link \in LinkChoices(project_id, "", 0, "") :
                  /\ inflight' = [inflight EXCEPT ![a] =
                         [Idle EXCEPT
                            !.pc = "lines",
                            !.api_token = api_token,
                            !.project_id = project_id,
                            !.scan_lines = scan_lines_arg,
                            !.submission_id = next_submission_id,
                            !.rows = next_submission_id :>
                                        SubmissionVals(next_submission_id, project_id,
                                                       authenticate_sale_person(api_token),
                                                       0, link, scan_lines_arg)]]
                  /\ next_submission_id' = next_submission_id + 1

\* lines 381-426: one turn of the loop over scan_lines
CreateLine(a) ==
    LET call == inflight[a]
        i == Len(call.line_ids) + 1
    IN  /\ call.pc = "lines"
        /\ i <= Len(call.scan_lines)
        /\ UNCHANGED <<token, issued_tokens, project_state, clock, req, resp,
                       next_submission_id>>
        /\ IF ScanLineRaises(call.scan_lines[i], call.rack_id)
           \* the handler catches the exception and returns normally: the
           \* rows written so far are committed
           THEN /\ submissions' = submissions @@ call.rows
                /\ scan_lines' = scan_lines @@ call.lines
                /\ inflight' = [inflight EXCEPT ![a] =
                       Returned(call, Failure("create_submission", "exception"))]
                /\ UNCHANGED next_scan_line_id
           ELSE IF ScanLineRejected(call.scan_lines[i], call.rack_id)
           \* the store aborted the transaction: nothing of it stays
           THEN /\ inflight' = [inflight EXCEPT ![a] =
                       Returned(call, Failure("create_submission", "exception"))]
                /\ UNCHANGED <<submissions, scan_lines, next_scan_line_id>>
           ELSE /\ inflight' = [inflight EXCEPT ![a] =
                       [call EXCEPT
                          !.line_ids = Append(@, next_scan_line_id),
                          !.lines = @ @@ (next_scan_line_id :>
                                      ScanLineVals(OwnSubmission(a), call.project_id,
                                                   authenticate_sale_person(call.api_token),
                                                   call.scan_lines[i], call.rack_id,
                                                   "draft"))]]
                /\ next_scan_line_id' = next_scan_line_id + 1
                /\ UNCHANGED <<submissions, scan_lines>>

\* lines 429-447: action_submit, the response, and the commit on return
CreateSubmit(a) ==
    LET call == inflight[a]
        submitted == action_submit(call.rows, call.lines, call.submission_id)
    IN  /\ call.pc = "lines"
        /\ Len(call.line_ids) = Len(call.scan_lines)
        /\ UNCHANGED <<token, issued_tokens, project_state, clock, req, resp,
                       next_submission_id, next_scan_line_id>>
        /\ submissions' = submissions @@ submitted.submissions
        /\ scan_lines' = scan_lines @@ submitted.scan_lines
        /\ inflight' = [inflight EXCEPT ![a] =
               Returned(call,
                   [CreateResponse(submitted.submissions[call.submission_id],
                                   call.submission_id, call.scan_lines, 0, 0)
                       EXCEPT !.scan_lines =
                           [k \in 1..Len(call.scan_lines) |->
                               [ValidateLine(call.scan_lines[k])
                                   EXCEPT !.scan_id = call.line_ids[k]]]])]

-----------------------------------------------------------------------------
(* update_submission and modify_submitted: per-item processing *)

\* values Python treats as false
Falsy(v) == v = 0 \/ v = NoValue

\* an entry of results['errors']
ItemError(error, scan_line_id, lot_id, lot_name) ==
    [error |-> error, scan_line_id |-> scan_line_id, lot_id |-> lot_id, lot_name |-> lot_name]

\* the running state of a request: rows, id sequence, results, and whether
\* an exception was raised ("raised") or the store aborted ("aborted")
StartAcc ==
    [lines |-> scan_lines, next_id |-> next_scan_line_id, results |-> NoResults,
     status |-> "ok"]

WithError(acc, e) == [acc EXCEPT !.results.errors = Append(@, e)]

\* the state a line may be in to be updated or removed; strict is
\* modify_submitted
LineEditable(line, strict) ==
    IF strict THEN line.state = "submitted" ELSE line.state \in {"draft", "submitted"}

\* the error of an update or remove item whose line is not editable; verb is
\* "updated" or "removed"
LineStateError(strict, verb) ==
    IF strict
    THEN (IF verb = "updated" THEN "Only scan lines in 'submitted' state can be updated"
          ELSE "Only scan lines in 'submitted' state can be removed")
    ELSE (IF verb = "updated" THEN "Only draft or submitted scan lines can be updated"
          ELSE "Only draft or submitted scan lines can be removed")

\* mutant: an added line is always created submitted
AddedLineState_AlwaysSubmitted(submission, strict) == "submitted"

\* the state an added line is created in
AddedLineState(submission, strict) ==
    IF strict THEN "submitted"
    ELSE IF submission.state = "draft" THEN "draft" ELSE "submitted"

\* mutant: the product of an added line is not compared
ProductMismatch_Never(submission, lot, strict) == FALSE

\* modify_submitted only: the submission has a product and the lot's differs
ProductMismatch(submission, lot, strict) ==
    strict /\ submission.product_id # 0 /\ submission.product_id # LotProduct[lot]

\* one item of scan_lines_to_add; submission is the record the handler read
\* when the request started
AddStepOn(acc, scan_data, submission_id, submission, sale_person, strict) ==
    LET lot == ResolveLot(scan_data.lot_id, scan_data.lot_name)
        rack == ScanLineRack(scan_data, submission.rack_id)
        state == AddedLineState(submission, strict)
    IN  IF RequiredMissing(scan_data)
        THEN WithError(acc, ItemError("Lot information and scanned quantity are required",
                                      0, scan_data.lot_id, scan_data.lot_name))
        ELSE IF scan_data.lot_id = Malformed THEN [acc EXCEPT !.status = "raised"]
        ELSE IF lot = 0
        THEN WithError(acc, ItemError("Lot not found", 0, scan_data.lot_id, scan_data.lot_name))
        ELSE IF ProductMismatch(submission, lot, strict)
        THEN WithError(acc, ItemError(
                "Cannot add a scan line with product ID %s to a submission with product ID %s.",
                0, scan_data.lot_id, scan_data.lot_name))
        ELSE IF scan_data.scanned_qty = Malformed \/ rack = Malformed
        THEN [acc EXCEPT !.status = "raised"]
        ELSE IF rack # 0 /\ rack \notin Racks THEN [acc EXCEPT !.status = "aborted"]
        ELSE [acc EXCEPT
                !.lines = @ @@ (acc.next_id :>
                    [ScanLineVals(submission_id, submission.project_id, sale_person,
                                  scan_data, submission.rack_id, state)
                        EXCEPT !.lot_name = ""]),
                !.next_id = @ + 1,
                !.results.added = Append(@,
                    [LineResult(scan_data) EXCEPT !.success = TRUE,
                                                  !.scan_id = acc.next_id,
                                                  !.product_id = LotProduct[lot]])]

\* one item of scan_lines_to_add of a request that runs alone
AddStep(acc, scan_data, submission_id, sale_person, strict) ==
    AddStepOn(acc, scan_data, submission_id, submissions[submission_id], sale_person, strict)

\* an update item: [scan_line_id, has_qty, scanned_qty, has_rack, rack_id,
\*                  has_notes, notes]
RackSupplied(update_data, strict) ==
    update_data.has_rack /\ (strict => ~Falsy(update_data.rack_id))

\* mutant: the three fields are written whether supplied or not
UpdateVals_WritesAll(line, update_data, sale_person, strict) ==
    [line EXCEPT
        !.scanned_qty = update_data.scanned_qty,
        !.rack_id = update_data.rack_id,
        !.notes = LineNotes(sale_person, update_data.notes)]

\* the line after write(update_vals): only the supplied keys are in update_vals
UpdateVals(line, update_data, sale_person, strict) ==
    [line EXCEPT
        !.scanned_qty = IF update_data.has_qty THEN update_data.scanned_qty ELSE @,
        !.rack_id = IF RackSupplied(update_data, strict) THEN update_data.rack_id ELSE @,
        !.notes = IF update_data.has_notes
                  THEN LineNotes(sale_person, update_data.notes) ELSE @]

\* one item of scan_lines_to_update
UpdateStep(acc, update_data, submission_id, sale_person, strict) ==
    LET id == update_data.scan_line_id
    IN  IF Falsy(id)
        THEN WithError(acc, ItemError("Scan line ID is required for updates", 0, 0, ""))
        ELSE IF id = Malformed THEN [acc EXCEPT !.status = "raised"]
        ELSE IF id \notin DOMAIN acc.lines \/ acc.lines[id].submission_id # submission_id
        THEN WithError(acc, ItemError("Scan line not found in this submission", id, 0, ""))
        ELSE IF ~LineEditable(acc.lines[id], strict)
        THEN WithError(acc, ItemError(LineStateError(strict, "updated"), id, 0, ""))
        ELSE IF update_data.has_qty /\ update_data.scanned_qty \in {Malformed, NoValue}
        THEN [acc EXCEPT !.status = "raised"]
        ELSE IF RackSupplied(update_data, strict) /\ update_data.rack_id \in {Malformed, NoValue}
        THEN [acc EXCEPT !.status = "raised"]
        ELSE IF ~(update_data.has_qty \/ RackSupplied(update_data, strict) \/ update_data.has_notes)
        THEN acc
        ELSE IF /\ RackSupplied(update_data, strict)
                /\ update_data.rack_id # 0
                /\ update_data.rack_id \notin Racks
        THEN [acc EXCEPT !.status = "aborted"]
        ELSE [acc EXCEPT
                !.lines[id] = UpdateVals(@, update_data, sale_person, strict),
                !.results.updated = Append(@, [scan_line_id |-> id, success |-> TRUE])]

\* one item of scan_lines_to_remove
RemoveStep(acc, scan_line_id, submission_id, strict) ==
    IF scan_line_id = Malformed \/ scan_line_id = NoValue THEN [acc EXCEPT !.status = "raised"]
    ELSE IF \/ scan_line_id \notin DOMAIN acc.lines
            \/ acc.lines[scan_line_id].submission_id # submission_id
    THEN WithError(acc, ItemError("Scan line not found in this submission", scan_line_id, 0, ""))
    ELSE IF ~LineEditable(acc.lines[scan_line_id], strict)
    THEN WithError(acc, ItemError(LineStateError(strict, "removed"), scan_line_id, 0, ""))
    ELSE [acc EXCEPT
            !.lines = [l \in DOMAIN acc.lines \ {scan_line_id} |-> acc.lines[l]],
            !.results.removed = Append(@, scan_line_id)]

\* the three loops, each stopping at the first exception
RECURSIVE AddAll(_, _, _, _, _, _)
AddAll(acc, items, i, submission_id, sale_person, strict) ==
    IF i > Len(items) \/ acc.status # "ok" THEN acc
    ELSE AddAll(AddStep(acc, items[i], submission_id, sale_person, strict),
                items, i + 1, submission_id, sale_person, strict)

RECURSIVE UpdateAll(_, _, _, _, _, _)
UpdateAll(acc, items, i, submission_id, sale_person, strict) ==
    IF i > Len(items) \/ acc.status # "ok" THEN acc
    ELSE UpdateAll(UpdateStep(acc, items[i], submission_id, sale_person, strict),
                   items, i + 1, submission_id, sale_person, strict)

RECURSIVE RemoveAll(_, _, _, _, _)
RemoveAll(acc, items, i, submission_id, strict) ==
    IF i > Len(items) \/ acc.status # "ok" THEN acc
    ELSE RemoveAll(RemoveStep(acc, items[i], submission_id, strict),
                   items, i + 1, submission_id, strict)

ProcessItems(to_add, to_update, to_remove, submission_id, sale_person, strict) ==
    RemoveAll(
        UpdateAll(
            AddAll(StartAcc, to_add, 1, submission_id, sale_person, strict),
            to_update, 1, submission_id, sale_person, strict),
        to_remove, 1, submission_id, strict)

-----------------------------------------------------------------------------
(* update_submission and modify_submitted: the handlers *)

\* mutant: the submission's state is not checked
EditEarlyError_NoStateCheck(api_token, submission_id, strict) ==
    IF Falsy(submission_id) THEN "Submission ID is required"
    ELSE IF authenticate_sale_person(api_token) = 0 THEN AuthError(api_token)
    ELSE IF submission_id = Malformed THEN "exception"
    ELSE IF submission_id \notin DOMAIN submissions THEN "Submission not found"
    ELSE IF submissions[submission_id].sale_person_id # authenticate_sale_person(api_token)
    THEN "You can only modify your own submissions"
    ELSE ""

\* the checks made before any item is processed; "" when all pass
EditEarlyError(api_token, submission_id, strict) ==
    IF Falsy(submission_id) THEN "Submission ID is required"
    ELSE IF authenticate_sale_person(api_token) = 0 THEN AuthError(api_token)
    ELSE IF submission_id = Malformed THEN "exception"
    ELSE IF submission_id \notin DOMAIN submissions THEN "Submission not found"
    ELSE IF strict /\ submissions[submission_id].state # "submitted"
    THEN "Only submissions in 'submitted' state can be modified with this endpoint"
    ELSE IF ~strict /\ submissions[submission_id].state \notin {"draft", "submitted"}
    THEN "Only draft or submitted submissions can be modified"
    ELSE IF submissions[submission_id].sale_person_id # authenticate_sale_person(api_token)
    THEN "You can only modify your own submissions"
    ELSE ""

\* the body of message_post: the counts of the three buckets that are not empty
ModificationSummary(results) ==
    [added |-> Len(results.added), updated |-> Len(results.updated),
     removed |-> Len(results.removed)]

\* mutant: a successful edit reopens the submission
PostedSubmissions_Reopen(acc, submission_id, strict) ==
    IF acc.status = "ok"
    THEN [submissions EXCEPT ![submission_id].state = "draft"]
    ELSE submissions

\* the submission rows after the request: modify_submitted posts a message on
\* the submission when a bucket is not empty
PostedSubmissions(acc, submission_id, strict) ==
    IF /\ strict
       /\ acc.status = "ok"
       /\ Len(acc.results.added) + Len(acc.results.updated)
              + Len(acc.results.removed) > 0
    THEN [submissions EXCEPT ![submission_id].messages =
              Append(@, ModificationSummary(acc.results))]
    ELSE submissions

EditSubmission(op, strict, api_token, submission_id, to_add, to_update, to_remove) ==
    /\ req' = [op |-> op, api_token |-> api_token, submission_id |-> submission_id,
               scan_lines_to_add |-> to_add, scan_lines_to_update |-> to_update,
               scan_lines_to_remove |-> to_remove]
    /\ UNCHANGED <<token, issued_tokens, project_state, inflight, clock, next_submission_id>>
    /\ IF EditEarlyError(api_token, submission_id, strict) # ""
       THEN /\ resp' = Failure(op, EditEarlyError(api_token, submission_id, strict))
            /\ UNCHANGED <<submissions, scan_lines, next_scan_line_id>>
       ELSE LET acc == ProcessItems(to_add, to_update, to_remove, submission_id,
                                    authenticate_sale_person(api_token), strict)
            IN  /\ next_scan_line_id' = acc.next_id
                /\ scan_lines' = IF acc.status = "aborted" THEN scan_lines ELSE acc.lines
                /\ submissions' = PostedSubmissions(acc, submission_id, strict)
                /\ resp' = IF acc.status = "ok"
                           THEN [EmptyResp EXCEPT !.op = op, !.success = TRUE,
                                                  !.submission_id = submission_id,
                                                  !.results = acc.results]
                           ELSE Failure(op, "exception")

update_submission(api_token, submission_id, to_add, to_update, to_remove) ==
    EditSubmission("update_submission", FALSE, api_token, submission_id,
                   to_add, to_update, to_remove)

modify_submitted(api_token, submission_id, to_add, to_update, to_remove) ==
    EditSubmission("modify_submitted", TRUE, api_token, submission_id,
                   to_add, to_update, to_remove)

-----------------------------------------------------------------------------
(* logout and refresh_token, statement by statement: the agent is found by *)
(* the token, then the new token is written. c is the client that sent the *)
(* request; two clients may hold the same credential.                      *)

\* _authenticate_sale_person: the read
RotateBegin(c, op, api_token) ==
    LET call == [Idle EXCEPT !.op = op, !.api_token = api_token,
                             !.sale_person = authenticate_sale_person(api_token)]
    IN  /\ inflight[c].pc = "idle"
        /\ UNCHANGED <<token, issued_tokens, project_state, clock, req, resp, store>>
        /\ inflight' = [inflight EXCEPT ![c] =
               IF authenticate_sale_person(api_token) = 0
               THEN Returned(call, Failure(op, AuthError(api_token)))
               ELSE [call EXCEPT !.pc = "write"]]

\* secrets.token_hex and sale_person.write: the write. When the row has
\* been written by another request since the read, the store either lets
\* the later write win or refuses it, depending on its isolation level; a
\* refusal is an exception, which the handler reports
RotateWrite(c) ==
    LET call == inflight[c]
    IN  /\ call.pc = "write"
        /\ UNCHANGED <<project_state, clock, req, resp, store>>
        /\ \/ \E new_token \in FreshTokens :
                 /\ WriteToken(call.sale_person, new_token)
                 /\ inflight' = [inflight EXCEPT ![c] =
                        Returned(call,
                            IF call.op = "refresh_token"
                            THEN [EmptyResp EXCEPT !.op = call.op, !.success = TRUE,
                                                   !.api_token = new_token]
                            ELSE [EmptyResp EXCEPT !.op = call.op, !.success = TRUE])]
           \/ /\ token[call.sale_person] # call.api_token
              /\ UNCHANGED <<token, issued_tokens>>
              /\ inflight' = [inflight EXCEPT ![c] =
                     Returned(call, Failure(call.op, "exception"))]

-----------------------------------------------------------------------------
(* update_submission and modify_submitted, statement by statement, for a   *)
(* request that only adds lines: the submission is read and checked when   *)
(* the request starts, the lines are created one per turn of the loop, and *)
(* the rows become visible to others when the handler returns.             *)

\* the scan lines after the call's rows are committed
Committed(call) == scan_lines @@ call.lines

\* lines 460-494 and 972-1003: the parameters, the submission, its state and
\* its owner
EditBegin(a, strict, submission_id, to_add) ==
    LET api_token == token[a]
        op == IF strict THEN "modify_submitted" ELSE "update_submission"
        call == [Idle EXCEPT !.op = op, !.strict = strict, !.api_token = api_token,
                             !.submission_id = submission_id, !.scan_lines = to_add]
    IN  /\ inflight[a].pc = "idle"
        /\ UNCHANGED <<token, issued_tokens, project_state, clock, req, resp, store>>
        /\ inflight' = [inflight EXCEPT ![a] =
               IF EditEarlyError(api_token, submission_id, strict) # ""
               THEN Returned(call, Failure(op, EditEarlyError(api_token, submission_id,
                                                              strict)))
               ELSE [call EXCEPT !.pc = "items",
                                 !.rows = submission_id :> submissions[submission_id]]]

\* lines 497-560 and 1006-1076: one turn of the loop over scan_lines_to_add
EditAddItem(a) ==
    LET call == inflight[a]
        acc == [lines |-> call.lines, next_id |-> next_scan_line_id,
                results |-> call.results, status |-> "ok"]
        out == AddStepOn(acc, call.scan_lines[call.i + 1], call.submission_id,
                         call.rows[call.submission_id],
                         authenticate_sale_person(call.api_token), call.strict)
    IN  /\ call.pc = "items"
        /\ call.i < Len(call.scan_lines)
        /\ UNCHANGED <<token, issued_tokens, project_state, clock, req, resp,
                       submissions, next_submission_id>>
        /\ IF out.status = "raised"
           THEN /\ scan_lines' = Committed(call)
                /\ inflight' = [inflight EXCEPT ![a] =
                       Returned(call, Failure(call.op, "exception"))]
                /\ UNCHANGED next_scan_line_id
           ELSE IF out.status = "aborted"
           THEN /\ inflight' = [inflight EXCEPT ![a] =
                       Returned(call, Failure(call.op, "exception"))]
                /\ UNCHANGED <<scan_lines, next_scan_line_id>>
           ELSE /\ inflight' = [inflight EXCEPT ![a] =
                       [call EXCEPT !.lines = out.lines, !.results = out.results,
                                    !.i = @ + 1]]
                /\ next_scan_line_id' = out.next_id
                /\ UNCHANGED scan_lines

\* lines 611-616 and 1127-1146: the message on the submission, the response
\* and the commit on return
EditReturn(a) ==
    LET call == inflight[a]
        acc == [lines |-> call.lines, next_id |-> next_scan_line_id,
                results |-> call.results, status |-> "ok"]
    IN  /\ call.pc = "items"
        /\ call.i = Len(call.scan_lines)
        /\ UNCHANGED <<token, issued_tokens, project_state, clock, req, resp,
                       next_submission_id, next_scan_line_id>>
        /\ scan_lines' = Committed(call)
        /\ submissions' = PostedSubmissions(acc, call.submission_id, call.strict)
        /\ inflight' = [inflight EXCEPT ![a] =
               Returned(call, [EmptyResp EXCEPT !.op = call.op, !.success = TRUE,
                                                !.submission_id = call.submission_id,
                                                !.results = call.results])]

-----------------------------------------------------------------------------
(* Listing and detail queries *)

Max(S) == CHOOSE x \in S : \A y \in S : y <= x

\* the ids of S in the requested order ("id asc" or "id desc")
RECURSIVE Ordered(_, _)
Ordered(S, order) ==
    IF S = {} THEN <<>>
    ELSE LET first == IF order = "id asc" THEN Min(S) ELSE Max(S)
         IN  <<first>> \o Ordered(S \ {first}, order)

\* search(domain, limit=limit, offset=offset): the store applies LIMIT only
\* when limit is truthy
Page(rows, limit, offset) ==
    LET last == IF limit = 0 \/ offset + limit > Len(rows) THEN Len(rows) ELSE offset + limit
    IN  SubSeq(rows, offset + 1, last)

get_submissions(api_token, project_id, limit, offset, order) ==
    LET sale_person == authenticate_sale_person(api_token)
        domain == {s \in DOMAIN submissions :
                      /\ submissions[s].sale_person_id = sale_person
                      /\ (project_id # 0 => submissions[s].project_id = project_id)}
        found == Page(Ordered(domain, order), limit, offset)
    IN  /\ req' = [op |-> "get_submissions", api_token |-> api_token,
                   project_id |-> project_id, limit |-> limit, offset |-> offset,
                   order |-> order]
        /\ UNCHANGED <<token, issued_tokens, project_state, inflight, clock, store>>
        /\ resp' =
              IF limit = Malformed \/ offset = Malformed
              THEN Failure("get_submissions", "exception")
              ELSE IF sale_person = 0
              THEN Failure("get_submissions", AuthError(api_token))
              ELSE IF project_id = Malformed
              THEN Failure("get_submissions", "exception")
              ELSE [EmptyResp EXCEPT
                      !.op = "get_submissions",
                      !.success = TRUE,
                      !.submissions = [i \in 1..Len(found) |->
                          [id |-> found[i], state |-> submissions[found[i]].state,
                           project_id |-> submissions[found[i]].project_id]],
                      !.pagination = [total_count |-> Cardinality(domain),
                                      limit |-> limit, offset |-> offset,
                                      has_more |-> (offset + Len(found)) < Cardinality(domain)]]

get_submission_scan_lines(api_token, submission_id, order) ==
    LET sale_person == authenticate_sale_person(api_token)
        found == Ordered(LinesOf(scan_lines, submission_id), order)
    IN  /\ req' = [op |-> "get_submission_scan_lines", api_token |-> api_token,
                   submission_id |-> submission_id, order |-> order]
        /\ UNCHANGED <<token, issued_tokens, project_state, inflight, clock, store>>
        /\ resp' =
              IF Falsy(submission_id)
              THEN Failure("get_submission_scan_lines", "Submission ID is required")
              ELSE IF sale_person = 0
              THEN Failure("get_submission_scan_lines", AuthError(api_token))
              ELSE IF submission_id = Malformed
              THEN Failure("get_submission_scan_lines", "exception")
              ELSE IF submission_id \notin DOMAIN submissions
              THEN Failure("get_submission_scan_lines", "Submission not found")
              ELSE IF submissions[submission_id].sale_person_id # sale_person
              THEN Failure("get_submission_scan_lines", "You can only view your own submissions")
              ELSE [EmptyResp EXCEPT
                      !.op = "get_submission_scan_lines",
                      !.success = TRUE,
                      !.submission_id = submission_id,
                      !.has_scan_lines = TRUE,
                      !.scan_lines = [i \in 1..Len(found) |->
                          [id |-> found[i],
                           lot_id |-> scan_lines[found[i]].lot_id,
                           product_id |-> scan_lines[found[i]].product_id,
                           scanned_qty |-> scan_lines[found[i]].scanned_qty,
                           state |-> scan_lines[found[i]].state,
                           rack_id |-> scan_lines[found[i]].rack_id]]]

\* the scan lines of a submission as the detail queries return them
LineData(ids) ==
    [i \in 1..Len(ids) |->
        [id |-> ids[i],
         lot_id |-> scan_lines[ids[i]].lot_id,
         product_id |-> scan_lines[ids[i]].product_id,
         scanned_qty |-> scan_lines[ids[i]].scanned_qty,
         state |-> scan_lines[ids[i]].state,
         rack_id |-> scan_lines[ids[i]].rack_id]]

\* the caller binds the whole 3-tuple to sale_person and tests its
\* truthiness: a tuple of three elements is never empty
get_previous_submission_details(api_token, submission_id) ==
    LET sale_person == AuthResult(api_token)
    IN  /\ req' = [op |-> "get_previous_submission_details", api_token |-> api_token,
                   submission_id |-> submission_id]
        /\ UNCHANGED <<token, issued_tokens, project_state, inflight, clock, store>>
        /\ resp' =
              IF Len(sale_person) = 0
              THEN Failure("get_previous_submission_details", "Authentication failed")
              ELSE IF Falsy(submission_id)
              THEN Failure("get_previous_submission_details", "Submission ID is required")
              ELSE IF submission_id = Malformed
              THEN Failure("get_previous_submission_details", "exception")
              ELSE IF submission_id \notin DOMAIN submissions
              THEN Failure("get_previous_submission_details", "Submission not found")
              ELSE IF submissions[submission_id].state # "validated"
              THEN Failure("get_previous_submission_details",
                           "Can only use validated submissions for re-inventory")
              ELSE [EmptyResp EXCEPT
                      !.op = "get_previous_submission_details",
                      !.success = TRUE,
                      !.submission_id = submission_id,
                      !.has_scan_lines = TRUE,
                      !.scan_lines =
                          LineData(Ordered(LinesOf(scan_lines, submission_id), "id asc"))]

RECURSIVE SumQty(_)
SumQty(S) ==
    IF S = {} THEN 0
    ELSE LET l == CHOOSE x \in S : TRUE
         IN  scan_lines[l].scanned_qty + SumQty(S \ {l})

\* mutant: the lines of every state are summed
InventoryLines_AnyState(lot) ==
    {l \in DOMAIN scan_lines : scan_lines[l].lot_id = lot}

\* search([('lot_id', '=', lot), ('state', '=', 'validated')])
InventoryLines(lot) ==
    {l \in DOMAIN scan_lines :
        scan_lines[l].lot_id = lot /\ scan_lines[l].state = "validated"}

\* SELECT SUM(quantity) over the ledger entries numbered in S: NULL (NoValue)
\* when there is none
RECURSIVE SqlSum(_)
SqlSum(S) ==
    IF S = {} THEN NoValue
    ELSE LET i == CHOOSE x \in S : TRUE
         IN  StockQuants[i].quantity
                + (IF S = {i} THEN 0 ELSE SqlSum(S \ {i}))

\* result[0] if result and result[0] else 0.0
NullAsZero(sum) == IF sum = NoValue \/ sum = 0 THEN 0 ELSE sum

\* mutant: the product of the ledger entry is not compared
LotStock_AnyProduct(product, lot, location) ==
    NullAsZero(SqlSum({i \in 1..Len(StockQuants) :
                         /\ StockQuants[i].lot_id = lot
                         /\ StockQuants[i].location_id = location}))

\* WHERE product_id = %s AND lot_id = %s AND location_id = %s
LotStock(product, lot, location) ==
    NullAsZero(SqlSum({i \in 1..Len(StockQuants) :
                         /\ StockQuants[i].product_id = product
                         /\ StockQuants[i].lot_id = lot
                         /\ StockQuants[i].location_id = location}))

\* WHERE product_id = %s AND location_id = %s
ProductStock(product, location) ==
    NullAsZero(SqlSum({i \in 1..Len(StockQuants) :
                         /\ StockQuants[i].product_id = product
                         /\ StockQuants[i].location_id = location}))

\* GROUP BY lot HAVING SUM(quantity) > 0, one entry per lot; the order of
\* the rows is not fixed by the query
ProductLots(product, location) ==
    {[lot_id |-> l, product_id |-> product,
      lot_inventoried_stock |-> SumQty(InventoryLines(l)),
      lot_stock |-> LotStock(product, l, location),
      product_stock |-> ProductStock(product, location)] :
        l \in {m \in Lots : LotStock(product, m, location) > 0}}

get_lot_info(api_token, lot_name, location_id) ==
    LET lot == LotByName(lot_name)
        inventory_lines == InventoryLines(lot)
    IN  /\ req' = [op |-> "get_lot_info", api_token |-> api_token,
                   lot_name |-> lot_name, location_id |-> location_id]
        /\ UNCHANGED <<token, issued_tokens, project_state, inflight, clock, store>>
        /\ resp' =
              IF lot_name = "" \/ location_id = 0
              THEN Failure("get_lot_info", "Lot name and location ID are required")
              ELSE IF authenticate_sale_person(api_token) = 0
              THEN Failure("get_lot_info", AuthError(api_token))
              ELSE IF lot = 0 THEN Failure("get_lot_info", "Lot not found")
              ELSE IF location_id = Malformed THEN Failure("get_lot_info", "exception")
              ELSE IF location_id \notin Locations
              THEN Failure("get_lot_info", "Location not found")
              ELSE [EmptyResp EXCEPT
                      !.op = "get_lot_info",
                      !.success = TRUE,
                      !.data = <<[lot_id |-> lot, product_id |-> LotProduct[lot],
                                  lot_inventoried_stock |-> SumQty(inventory_lines),
                                  lot_stock |-> LotStock(LotProduct[lot], lot, location_id),
                                  product_stock |-> ProductStock(LotProduct[lot], location_id),
                                  product_lots |-> ProductLots(LotProduct[lot], location_id)]>>]

\* the orders search(order='validation_datetime DESC') may return found in
DescOrders(found) ==
    {q \in [1..Cardinality(found) -> found] :
        /\ \A i, j \in 1..Cardinality(found) : i # j => q[i] # q[j]
        /\ \A i, j \in 1..Cardinality(found) :
              i < j => submissions[q[i]].validation_datetime
                          >= submissions[q[j]].validation_datetime}

check_previous_submissions(api_token, lot_name, location_id) ==
    LET lot == LotByName(lot_name)
        found == IF lot = 0 \/ location_id = Malformed THEN {}
                 ELSE PreviousSubmissions(lot, location_id)
    IN  /\ req' = [op |-> "check_previous_submissions", api_token |-> api_token,
                   lot_name |-> lot_name, location_id |-> location_id]
        /\ UNCHANGED <<token, issued_tokens, project_state, inflight, clock, store>>
        /\ IF authenticate_sale_person(api_token) = 0
           THEN resp' = Failure("check_previous_submissions", AuthError(api_token))
           ELSE IF lot_name = ""
           THEN resp' = Failure("check_previous_submissions", "Lot name is required")
           ELSE IF lot = 0
           THEN resp' = Failure("check_previous_submissions", "Lot not found: %s")
           ELSE IF location_id = Malformed
           THEN resp' = Failure("check_previous_submissions", "exception")
           ELSE \E q \in DescOrders(found) :
                  resp' = [EmptyResp EXCEPT
                      !.op = "check_previous_submissions",
                      !.success = TRUE,
                      !.has_previous = (found # {}),
                      !.submissions = [i \in 1..Len(q) |->
                          [id |-> q[i], name |-> submissions[q[i]].name,
                           validation_datetime |-> submissions[q[i]].validation_datetime,
                           project_id |-> submissions[q[i]].project_id,
                           scan_lines |-> LineData(Ordered(
                               {l \in LinesOf(scan_lines, q[i]) : scan_lines[l].lot_id = lot},
                               "id asc"))]]]

-----------------------------------------------------------------------------
(* Administrative validation (outside the controller) *)

\* the validator confirms a submitted submission: the submission and its
\* lines become validated and the validation timestamp is stamped
action_validate(submission_id, advance) ==
    /\ submission_id \in DOMAIN submissions
    /\ submissions[submission_id].state = "submitted"
    /\ clock + advance <= MaxClock
    /\ clock' = clock + advance
    /\ submissions' = [submissions EXCEPT
                          ![submission_id].state = "validated",
                          ![submission_id].validation_datetime = clock + advance]
    /\ scan_lines' = [l \in DOMAIN scan_lines |->
                        IF scan_lines[l].submission_id = submission_id
                        THEN [scan_lines[l] EXCEPT !.state = "validated"]
                        ELSE scan_lines[l]]
    /\ req' = [op |-> "action_validate", submission_id |-> submission_id]
    /\ resp' = [EmptyResp EXCEPT !.op = "action_validate", !.success = TRUE]
    /\ UNCHANGED <<token, issued_tokens, project_state, inflight, next_submission_id, next_scan_line_id>>

-----------------------------------------------------------------------------
(* Initial state: master data loaded, no submission yet *)

\* the campaign of a running project is closed (outside the controller)
project_complete(project_id) ==
    /\ project_id \in Projects
    /\ project_state[project_id] = "in_progress"
    /\ project_state' = [project_state EXCEPT ![project_id] = "completed"]
    /\ req' = [op |-> "project_complete", project_id |-> project_id]
    /\ resp' = [EmptyResp EXCEPT !.op = "project_complete", !.success = TRUE]
    /\ UNCHANGED <<token, issued_tokens, inflight, clock, store>>

Init ==
    /\ token = [a \in SalePersons |-> IF a = 3 THEN 0 ELSE 10 + a]
    /\ issued_tokens = {11, 12}
    /\ project_state = [p \in Projects |-> IF p = 4 THEN "not_started" ELSE "in_progress"]
    /\ submissions = <<>>
    /\ scan_lines = <<>>
    /\ next_submission_id = 1
    /\ next_scan_line_id = 1
    /\ clock = 0
    /\ req = NoReq
    /\ resp = EmptyResp
    /\ inflight = [a \in Requesters |-> Idle]

-----------------------------------------------------------------------------
(* Request values *)

ScanData(lot_id, lot_name, scanned_qty) ==
    [lot_id |-> lot_id, lot_name |-> lot_name, scanned_qty |-> scanned_qty,
     has_rack |-> FALSE, rack_id |-> 0, notes |-> ""]

SeqsUpTo(S, n) == UNION {[1..m -> S] : m \in 1..n}

\* a line found by name, a line whose lot name is unknown, a line without
\* quantity, and a line that validates but whose quantity float() rejects
BatchLineChoices ==
    {ScanData(0, "L2", 3), ScanData(0, "GHOST", 1), ScanData(1, "", NoValue),
     ScanData(3, "", Malformed)}

\* a line found by id, a line without lot reference, a line whose lot id
\* names no lot, a line with a quantity below zero
SingleLineChoices ==
    {ScanData(1, "", 5), ScanData(0, "", 2), ScanData(9, "", 1), ScanData(2, "", -1)}

-----------------------------------------------------------------------------
(* SpecBatch: batches of every shape against a running project *)

BatchCreate ==
    /\ next_submission_id <= MaxBatchSubmissions
    /\ \E scan_lines_arg \in SeqsUpTo(BatchLineChoices, MaxBatch) :
          create_submission(11, 1, 0, "", scan_lines_arg, 0, "")

BatchCreateSingle ==
    /\ next_submission_id <= MaxBatchSubmissions
    /\ \E scan_data \in SingleLineChoices :
          create_submission(12, 1, 0, "", <<scan_data>>, 0, "")

\* a good batch and an empty batch against no project, a project that is
\* not running, a project that does not exist, and the running project
BatchCreateRefused ==
    /\ next_submission_id <= MaxBatchSubmissions
    /\ \E project_id \in {0, 1, 4, 9}, scan_lines_arg \in {<<>>, <<ScanData(1, "", 5)>>} :
          /\ (project_id = 1 => scan_lines_arg = <<>>)
          /\ create_submission(11, project_id, 0, "", scan_lines_arg, 0, "")

NextBatch == BatchCreate \/ BatchCreateSingle \/ BatchCreateRefused

SpecBatch == Init /\ [][NextBatch]_vars

-----------------------------------------------------------------------------
(* Claims on create_submission *)

\* a line the validate phase must refuse: no lot reference, no quantity, or a
\* reference that names no lot
InvalidLine(scan_data) ==
    \/ (scan_data.lot_id = 0 /\ scan_data.lot_name = "")
    \/ scan_data.scanned_qty = NoValue
    \/ (scan_data.lot_id # 0 /\ scan_data.lot_id \notin Lots)
    \/ (scan_data.lot_id = 0 /\ \A l \in Lots : LotName[l] # scan_data.lot_name)

HasInvalidLine(scan_lines_arg) ==
    \E i \in 1..Len(scan_lines_arg) : InvalidLine(scan_lines_arg[i])

\* C1: a create_submission request with at least one invalid line, wherever
\* it sits in the list, leaves the persisted submissions and scan lines as
\* they were before the call.
C1_InvalidBatchPersistsNothing ==
    [][(req'.op = "create_submission" /\ HasInvalidLine(req'.scan_lines))
        => (submissions' = submissions /\ scan_lines' = scan_lines)]_vars

\* a batch whose invalid line comes last, after a valid one, was refused
\* while the store already held rows
C1_Witness ==
    /\ req.op = "create_submission"
    /\ Len(req.scan_lines) = 2
    /\ ~InvalidLine(req.scan_lines[1])
    /\ InvalidLine(req.scan_lines[2])
    /\ ~resp.success
    /\ DOMAIN submissions # {}
    /\ DOMAIN scan_lines # {}

\* C2: a create_submission that answers success=false leaves no submission
\* and no scan line behind, also when it fails after the submission row was
\* created.
C2_FailedCreateLeavesNothing ==
    [][(req'.op = "create_submission" /\ ~resp'.success)
        => (submissions' = submissions /\ scan_lines' = scan_lines)]_vars

\* C8: after a create_submission that returns success the new submission is
\* submitted and owns exactly one scan line per input line, in input order,
\* each of them submitted.
C8_SuccessMeansSubmitted ==
    (resp.op = "create_submission" /\ resp.success) =>
        /\ resp.submission_id \in DOMAIN submissions
        /\ submissions[resp.submission_id].state = "submitted"
        /\ Len(resp.scan_lines) = Len(req.scan_lines)
        /\ LinesOf(scan_lines, resp.submission_id) =
                {resp.scan_lines[i].scan_id : i \in 1..Len(req.scan_lines)}
        /\ Cardinality(LinesOf(scan_lines, resp.submission_id)) = Len(req.scan_lines)
        /\ \A i \in 1..Len(req.scan_lines) :
              /\ resp.scan_lines[i].scan_id \in DOMAIN scan_lines
              /\ scan_lines[resp.scan_lines[i].scan_id].state = "submitted"
              /\ scan_lines[resp.scan_lines[i].scan_id].scanned_qty =
                    req.scan_lines[i].scanned_qty

\* a two-line batch was created
C8_Witness ==
    /\ resp.op = "create_submission"
    /\ resp.success
    /\ Len(req.scan_lines) = 2

\* C9: a batch refused for line validation answers success=false without a
\* submission id and with one result per input line, in input order, whose
\* success flag tells whether that line alone is valid and whose error is
\* set on every invalid line.
C9_RejectionReportsEveryLine ==
    (req.op = "create_submission" /\ resp.has_scan_lines /\ HasInvalidLine(req.scan_lines)) =>
        /\ ~resp.success
        /\ resp.submission_id = 0
        /\ Len(resp.scan_lines) = Len(req.scan_lines)
        /\ \A i \in 1..Len(req.scan_lines) :
              /\ resp.scan_lines[i].lot_id = req.scan_lines[i].lot_id
              /\ resp.scan_lines[i].lot_name = req.scan_lines[i].lot_name
              /\ resp.scan_lines[i].success = ~InvalidLine(req.scan_lines[i])
              /\ InvalidLine(req.scan_lines[i]) => resp.scan_lines[i].error # ""

\* a refused batch whose first line is invalid and whose second is valid
C9_Witness ==
    /\ req.op = "create_submission"
    /\ resp.has_scan_lines
    /\ Len(req.scan_lines) = 2
    /\ InvalidLine(req.scan_lines[1])
    /\ ~InvalidLine(req.scan_lines[2])
    /\ ~resp.success

\* C22: create_submission fails and creates no submission and no scan line
\* when the project does not exist, when the project is not in_progress,
\* or when the scan-line list is empty.
C22_PreconditionsRefuse ==
    [][(/\ req'.op = "create_submission"
        /\ \/ req'.project_id \notin Projects
           \/ project_state[req'.project_id] # "in_progress"
           \/ Len(req'.scan_lines) = 0)
        => (/\ ~resp'.success
            /\ resp'.submission_id = 0
            /\ submissions' = submissions
            /\ scan_lines' = scan_lines)]_vars

\* a good batch was refused for a project that is not running, while the
\* store already held a submission
C22_Witness ==
    /\ req.op = "create_submission"
    /\ req.project_id \in Projects
    /\ project_state[req.project_id] # "in_progress"
    /\ Len(req.scan_lines) = 1
    /\ ~InvalidLine(req.scan_lines[1])
    /\ resp.error = "Project is not in progress"
    /\ DOMAIN submissions # {}

\* C26: in every reachable state every persisted scan line has a scanned
\* quantity greater than or equal to zero.
C26_QuantityNonNegative ==
    \A l \in DOMAIN scan_lines : scan_lines[l].scanned_qty >= 0

-----------------------------------------------------------------------------
(* SpecLink: re-inventory linkage against validated submissions *)

\* a line of product 1 and a line of product 2
LinkLineChoices == {ScanData(1, "", 5), ScanData(3, "", 2)}

\* explicit references: none, every stored submission, an id that names no
\* submission, a malformed id
PreviousChoices == {0, 9, Malformed} \cup DOMAIN submissions

\* first submissions, without link parameters, at location 1 or 2
LinkSeed ==
    /\ next_submission_id < MaxSubmissions
    /\ \E project_id \in {1, 2}, scan_data \in LinkLineChoices :
          create_submission(11, project_id, 0, "", <<scan_data>>, 0, "")

LinkCreate ==
    /\ next_submission_id = MaxSubmissions
    /\ \E scan_lines_arg \in SeqsUpTo(LinkLineChoices, MaxBatch),
          previous_submission_id \in PreviousChoices,
          scanned_lot_name \in {"", "L1", "GHOST"} :
          create_submission(12, 1, 0, "n", scan_lines_arg, previous_submission_id,
                            scanned_lot_name)

\* the same from a project without location
LinkCreateNoLocation ==
    /\ next_submission_id = MaxSubmissions
    /\ \E scanned_lot_name \in {"L1", "L3"} :
          create_submission(12, 3, 0, "", <<ScanData(1, "", 5)>>, 0, scanned_lot_name)

LinkValidate ==
    \E submission_id \in DOMAIN submissions : action_validate(submission_id, 1)

NextLink == LinkSeed \/ LinkCreate \/ LinkCreateNoLocation \/ LinkValidate

SpecLink == Init /\ [][NextLink]_vars

-----------------------------------------------------------------------------
(* Claims on the link phase *)

\* the products of the scan lines a submission owns
LineProducts(submission_id) ==
    {scan_lines[l].product_id : l \in LinesOf(scan_lines, submission_id)}

\* the submission a successful create_submission has just created
Created == resp.op = "create_submission" /\ resp.success

\* C3: a successfully created submission whose lines have exactly one product
\* carries that product; one whose lines have several products carries none,
\* whether or not it is linked to a previous submission that has a product.
C3_ProductFollowsLines ==
    Created =>
        /\ Cardinality(LineProducts(resp.submission_id)) = 1
              => LineProducts(resp.submission_id) = {submissions[resp.submission_id].product_id}
        /\ Cardinality(LineProducts(resp.submission_id)) > 1
              => submissions[resp.submission_id].product_id = 0

\* the request names an existing validated submission explicitly
ExplicitValid ==
    /\ req.previous_submission_id \in DOMAIN submissions
    /\ submissions[req.previous_submission_id].state = "validated"

\* validated submissions owning a line of the lot named by the hint, at the
\* location of the request's project
HintMatches ==
    {s \in DOMAIN submissions :
        /\ submissions[s].state = "validated"
        /\ ProjectLocation[submissions[s].project_id] = ProjectLocation[req.project_id]
        /\ \E l \in DOMAIN scan_lines :
              /\ scan_lines[l].submission_id = s
              /\ scan_lines[l].lot_id = LotByName(req.scanned_lot_name)}

\* C4: with both a valid explicit previous_submission_id and a
\* scanned_lot_name hint, the new submission is linked to the explicit one.
C4_ExplicitWins ==
    (Created /\ req.scanned_lot_name # "" /\ req.previous_submission_id # 0
             /\ req.previous_submission_id # Malformed /\ ExplicitValid) =>
        submissions[resp.submission_id].previous_submission_id = req.previous_submission_id

\* the hint matches a validated submission more recent than the explicit one
C4_Witness ==
    /\ Created
    /\ req.scanned_lot_name # ""
    /\ req.previous_submission_id \in DOMAIN submissions
    /\ submissions[req.previous_submission_id].state = "validated"
    /\ \E s \in HintMatches :
          submissions[s].validation_datetime >
              submissions[req.previous_submission_id].validation_datetime

\* C10: with a hint and no explicit reference, when validated submissions
\* own a line of that lot at the project's location, the new submission is
\* linked to one of them with the greatest validation timestamp and its
\* notes name that submission.
C10_HintLinksMostRecent ==
    (Created /\ req.previous_submission_id = 0 /\ req.scanned_lot_name # ""
             /\ ProjectLocation[req.project_id] # 0 /\ HintMatches # {}) =>
        LET prev == submissions[resp.submission_id].previous_submission_id
        IN  /\ prev \in HintMatches
            /\ \A s \in HintMatches :
                  submissions[s].validation_datetime <= submissions[prev].validation_datetime
            /\ \E i \in 1..Len(submissions[resp.submission_id].notes) :
                  submissions[resp.submission_id].notes[i].ref = submissions[prev].name

\* two validated submissions of different age match the hint, and a third
\* one owns the lot at another location
C10_Witness ==
    /\ Created
    /\ req.previous_submission_id = 0
    /\ req.scanned_lot_name # ""
    /\ ProjectLocation[req.project_id] # 0
    /\ \E s, t \in HintMatches :
          submissions[s].validation_datetime < submissions[t].validation_datetime

\* C12: in every reachable state, every submission whose
\* previous_submission_id is set references an existing submission that is
\* validated, for explicit links and for links found by the lot-name hint.
C12_LinkTargetsValidated ==
    \A s \in DOMAIN submissions :
        submissions[s].previous_submission_id # 0 =>
            /\ submissions[s].previous_submission_id \in DOMAIN submissions
            /\ submissions[submissions[s].previous_submission_id].state = "validated"

\* a submission was linked by the hint while another submission owning the
\* same lot at the same location was not validated
C12_Witness ==
    /\ Created
    /\ req.previous_submission_id = 0
    /\ req.scanned_lot_name # ""
    /\ submissions[resp.submission_id].previous_submission_id # 0
    /\ \E t \in DOMAIN submissions :
          /\ submissions[t].state = "submitted"
          /\ t # resp.submission_id
          /\ ProjectLocation[submissions[t].project_id] = ProjectLocation[req.project_id]
          /\ \E l \in LinesOf(scan_lines, t) :
                scan_lines[l].lot_id = LotByName(req.scanned_lot_name)

\* the scan lines of submission s that carry the lot
LotLinesOf(s, lot) ==
    {l \in DOMAIN scan_lines :
        scan_lines[l].submission_id = s /\ scan_lines[l].lot_id = lot}

\* the explicit reference r cannot be resolved: malformed, no such
\* submission, or a submission that is not validated
ExplicitUnresolved(r) ==
    \/ r = Malformed
    \/ r \notin DOMAIN submissions
    \/ submissions[r].state # "validated"

\* the hint of request r cannot be resolved: no lot of that name, or no
\* validated submission with a line of it where the project's location, if
\* it has one, is the submission's
HintUnresolved(r) ==
    \/ \A lot \in Lots : LotName[lot] # r.scanned_lot_name
    \/ ~\E s \in DOMAIN submissions :
           /\ submissions[s].state = "validated"
           /\ LotLinesOf(s, LotByName(r.scanned_lot_name)) # {}
           /\ (ProjectLocation[r.project_id] # 0 =>
                  ProjectLocation[submissions[s].project_id] = ProjectLocation[r.project_id])

\* C27: a failure to resolve the re-inventory link never aborts a batch:
\* when all lines are valid and the explicit previous_submission_id is
\* malformed, names no submission or names one that is not validated, or
\* when the scanned_lot_name hint resolves to no lot or no prior submission,
\* create_submission succeeds and creates the submission and all its lines
\* with previous_submission_id unset.
C27_LinkFailureIsNotFatal ==
    [][(/\ req'.op = "create_submission"
        /\ authenticate_sale_person(req'.api_token) # 0
        /\ req'.project_id \in Projects
        /\ project_state[req'.project_id] = "in_progress"
        /\ Len(req'.scan_lines) > 0
        /\ ~HasInvalidLine(req'.scan_lines)
        /\ \/ (req'.previous_submission_id # 0
                 /\ ExplicitUnresolved(req'.previous_submission_id))
           \/ (req'.previous_submission_id = 0 /\ req'.scanned_lot_name # ""
                 /\ HintUnresolved(req')))
        => (/\ resp'.success
            /\ resp'.submission_id = next_submission_id
            /\ DOMAIN submissions' = DOMAIN submissions \cup {next_submission_id}
            /\ submissions'[next_submission_id].previous_submission_id = 0
            /\ submissions'[next_submission_id].sale_person_id
                  = authenticate_sale_person(req'.api_token)
            /\ Cardinality(LinesOf(scan_lines', next_submission_id))
                  = Len(req'.scan_lines)
            /\ resp'.previous_submission_id = 0
            /\ ~resp'.is_reinventory)]_vars

\* a two-line batch names a submission that is only submitted, together
\* with a hint that matches a validated one, and is stored without link
C27_Witness ==
    /\ Created
    /\ Len(req.scan_lines) = 2
    /\ Cardinality(LinesOf(scan_lines, resp.submission_id)) = 2
    /\ req.previous_submission_id \in DOMAIN submissions
    /\ submissions[req.previous_submission_id].state = "submitted"
    /\ req.scanned_lot_name = "L1"
    /\ HintMatches # {}
    /\ submissions[resp.submission_id].previous_submission_id = 0

\* C31: with an explicit previous_submission_id that names no existing
\* validated submission, and a scanned_lot_name hint for which a prior
\* validated submission exists at the project's location, the new
\* submission is linked to the most recent such submission.
C31_HintAppliesAfterBadExplicit ==
    (Created /\ req.previous_submission_id # 0 /\ ~ExplicitValid
             /\ req.scanned_lot_name # "" /\ HintMatches # {}) =>
        /\ submissions[resp.submission_id].previous_submission_id \in HintMatches
        /\ \A s \in HintMatches :
              submissions[s].validation_datetime <=
                 submissions[submissions[resp.submission_id].previous_submission_id]
                    .validation_datetime

\* C28: the success response of create_submission carries the linkage info
\* (is_reinventory and the previous submission's id) exactly when the
\* created submission has previous_submission_id set, for an explicit
\* reference and for a link detected from scanned_lot_name alike.
C28_ResponseCarriesLink ==
    Created =>
        /\ resp.is_reinventory
              = (submissions[resp.submission_id].previous_submission_id # 0)
        /\ resp.previous_submission_id
              = submissions[resp.submission_id].previous_submission_id

-----------------------------------------------------------------------------
(* SpecEdit: edits and reads of stored submissions by owner and non-owner *)

UpdateData(scan_line_id) ==
    [scan_line_id |-> scan_line_id, has_qty |-> TRUE, scanned_qty |-> 7,
     has_rack |-> TRUE, rack_id |-> 2, has_notes |-> TRUE, notes |-> "u"]

\* a one-line batch, and a two-line batch whose second line fails in the
\* commit phase
EditSeed ==
    /\ next_submission_id < MaxSubmissions
    /\ next_scan_line_id < MaxScanLines
    /\ \E scan_lines_arg \in {<<ScanData(1, "", 5)>>,
                              <<ScanData(1, "", 5), ScanData(3, "", Malformed)>>} :
          create_submission(11, 1, 0, "", scan_lines_arg, 0, "")

EditValidate ==
    \E submission_id \in DOMAIN submissions : action_validate(submission_id, 1)

\* requests with one item in one of the three lists
EditRequests ==
    {<<<<ScanData(3, "", 4)>>, <<>>, <<>>>>}
    \cup {<<<<>>, <<UpdateData(l)>>, <<>>>> : l \in DOMAIN scan_lines}
    \cup {<<<<>>, <<>>, <<l>>>> : l \in DOMAIN scan_lines}

EditUpdate ==
    /\ next_scan_line_id <= MaxScanLines
    /\ \E submission_id \in DOMAIN submissions, r \in EditRequests :
          update_submission(11, submission_id, r[1], r[2], r[3])

\* the same requests from the agent who owns none of the submissions
EditUpdateForeign ==
    \E submission_id \in DOMAIN submissions, l \in DOMAIN scan_lines :
        update_submission(12, submission_id, <<>>, <<UpdateData(l)>>, <<>>)

EditModifyForeign ==
    \E submission_id \in DOMAIN submissions, l \in DOMAIN scan_lines :
        modify_submitted(12, submission_id, <<>>, <<>>, <<l>>)

EditRead ==
    \E api_token \in {11, 12}, submission_id \in DOMAIN submissions :
        get_submission_scan_lines(api_token, submission_id, "id asc")

NextEdit ==
    \/ EditSeed \/ EditValidate \/ EditUpdate
    \/ EditUpdateForeign \/ EditModifyForeign \/ EditRead

SpecEdit == Init /\ [][NextEdit]_vars

-----------------------------------------------------------------------------
(* Claims on update_submission, modify_submitted and get_submission_scan_lines *)

\* the lines named by the update and remove items of an edit request
NamedLines(r) ==
    {r.scan_lines_to_update[i].scan_line_id : i \in 1..Len(r.scan_lines_to_update)}
    \cup {r.scan_lines_to_remove[i] : i \in 1..Len(r.scan_lines_to_remove)}

\* the request r comes from the authenticated owner of its target submission
ByOwner(r) ==
    /\ authenticate_sale_person(r.api_token) # 0
    /\ r.submission_id \in DOMAIN submissions
    /\ submissions[r.submission_id].sale_person_id = authenticate_sale_person(r.api_token)

\* line l is altered or deleted by the step
Touched(l) == l \notin DOMAIN scan_lines' \/ scan_lines'[l] # scan_lines[l]

\* line l is reported as updated and carries the requested quantity, or is
\* reported as removed and is gone
Applied(l) ==
    \/ /\ \E i \in 1..Len(resp'.results.updated) : resp'.results.updated[i].scan_line_id = l
       /\ l \in DOMAIN scan_lines'
       /\ \E i \in 1..Len(req'.scan_lines_to_update) :
             /\ req'.scan_lines_to_update[i].scan_line_id = l
             /\ scan_lines'[l].scanned_qty = req'.scan_lines_to_update[i].scanned_qty
    \/ /\ \E i \in 1..Len(resp'.results.removed) : resp'.results.removed[i] = l
       /\ l \notin DOMAIN scan_lines'

StateErrorFor(l) ==
    \E i \in 1..Len(resp'.results.errors) :
        /\ resp'.results.errors[i].scan_line_id = l
        /\ resp'.results.errors[i].error \in
              {LineStateError(FALSE, "updated"), LineStateError(FALSE, "removed")}

NotFoundErrorFor(l) ==
    \E i \in 1..Len(resp'.results.errors) :
        /\ resp'.results.errors[i].scan_line_id = l
        /\ resp'.results.errors[i].error = "Scan line not found in this submission"

C13_ProductMatchesLines ==
    \A s \in DOMAIN submissions :
        submissions[s].product_id # 0 =>
            \A l \in LinesOf(scan_lines, s) :
                scan_lines[l].product_id = submissions[s].product_id

\* draft < submitted < validated
StateRank(state) ==
    IF state = "draft" THEN 0 ELSE IF state = "submitted" THEN 1 ELSE 2

\* C14: no step moves a stored submission to an earlier state in the order
\* draft < submitted < validated, and no step deletes a submission.
C14_StateMovesForward ==
    [][\A s \in DOMAIN submissions :
          /\ s \in DOMAIN submissions'
          /\ StateRank(submissions'[s].state) >= StateRank(submissions[s].state)]_vars

\* the owner's update_submission changed a submitted submission, which is
\* still submitted, while another submission is validated
C14_Witness ==
    /\ req.op = "update_submission"
    /\ resp.success
    /\ Len(resp.results.added) + Len(resp.results.updated) + Len(resp.results.removed) > 0
    /\ submissions[req.submission_id].state = "submitted"
    /\ \E s \in DOMAIN submissions : submissions[s].state = "validated"

\* C15: in every reachable state a scan line's state is at most its parent
\* submission's state in the order draft < submitted < validated, for lines
\* created with the submission and for lines added later.
C15_LineNotAheadOfSubmission ==
    \A l \in DOMAIN scan_lines :
        /\ scan_lines[l].submission_id \in DOMAIN submissions
        /\ StateRank(scan_lines[l].state)
              <= StateRank(submissions[scan_lines[l].submission_id].state)

\* update_submission added a line to a draft submission
C15_Witness ==
    /\ req.op = "update_submission"
    /\ resp.success
    /\ Len(resp.results.added) = 1
    /\ submissions[req.submission_id].state = "draft"
    /\ resp.results.added[1].scan_id \in LinesOf(scan_lines, req.submission_id)

OwnerCheckedOps == {"update_submission", "modify_submitted", "get_submission_scan_lines"}

OwnershipErrors ==
    {"You can only modify your own submissions", "You can only view your own submissions"}

\* C6: update_submission, modify_submitted and get_submission_scan_lines
\* called by an authenticated agent who does not own the target submission
\* fail with the ownership error, whatever the submission's state, return
\* no scan-line data and change nothing.
C6_NonOwnerGetsOwnershipError ==
    [][(/\ req'.op \in OwnerCheckedOps
        /\ authenticate_sale_person(req'.api_token) # 0
        /\ req'.submission_id \in DOMAIN submissions
        /\ submissions[req'.submission_id].sale_person_id
              # authenticate_sale_person(req'.api_token))
        => (/\ ~resp'.success
            /\ resp'.error \in OwnershipErrors
            /\ resp'.scan_lines = <<>>
            /\ submissions' = submissions
            /\ scan_lines' = scan_lines)]_vars

-----------------------------------------------------------------------------
(* SpecQuery: paginated listing of the submissions of two agents *)

\* submissions of agent 1 in projects 1 and 2, and of agent 2 in project 1
QuerySeed ==
    \E r \in {<<11, 1>>, <<11, 2>>, <<12, 1>>} :
        create_submission(r[1], r[2], 0, "", <<ScanData(1, "", 5)>>, 0, "")

QueryList ==
    \E api_token \in {11, 12}, project_id \in {0, 1},
       limit \in 0..MaxLimit, offset \in 0..MaxOffset :
        get_submissions(api_token, project_id, limit, offset, "id desc")

NextQuery == QuerySeed \/ QueryList

SpecQuery == Init /\ [][NextQuery]_vars

-----------------------------------------------------------------------------
(* Claims on get_submissions *)

\* the submissions of the requesting agent that match the project filter
Matching ==
    {s \in DOMAIN submissions :
        /\ submissions[s].sale_person_id = authenticate_sale_person(req.api_token)
        /\ (req.project_id # 0 => submissions[s].project_id = req.project_id)}

\* C7: get_submissions with limit L and offset O returns min(L, total - O)
\* submissions, 0 when O >= total, also for L = 0, and has_more is
\* (O + returned) < total.
C7_PageSize ==
    (req.op = "get_submissions" /\ resp.success) =>
        /\ Len(resp.submissions) =
              IF req.offset >= Cardinality(Matching) THEN 0
              ELSE Min({req.limit, Cardinality(Matching) - req.offset})
        /\ resp.pagination.total_count = Cardinality(Matching)
        /\ resp.pagination.has_more =
              (req.offset + Len(resp.submissions) < Cardinality(Matching))

-----------------------------------------------------------------------------
(* SpecAuth: every operation called with a missing, unknown or stale token *)

\* no token, a token nobody holds, the token agent 1 starts with
Credentials == {0, 99, 11}

AuthSeed ==
    /\ next_submission_id = 1
    /\ create_submission(11, 1, 0, "", <<ScanData(1, "", 5)>>, 0, "")

AuthValidate ==
    \E submission_id \in DOMAIN submissions : action_validate(submission_id, 1)

AuthLogout == \E api_token \in Credentials : logout(api_token)

AuthRefresh == \E api_token \in Credentials : refresh_token(api_token)

AuthCreate ==
    \E api_token \in {0, 99} :
        create_submission(api_token, 1, 0, "", <<ScanData(1, "", 5)>>, 0, "L1")

AuthUpdate ==
    \E api_token \in {0, 99}, submission_id \in DOMAIN submissions :
        update_submission(api_token, submission_id, <<ScanData(1, "", 5)>>, <<>>, <<>>)

AuthModify ==
    \E api_token \in {0, 99}, submission_id \in DOMAIN submissions :
        modify_submitted(api_token, submission_id, <<ScanData(1, "", 5)>>, <<>>, <<>>)

AuthList ==
    \E api_token \in Credentials : get_submissions(api_token, 0, 2, 0, "id desc")

AuthLines ==
    \E api_token \in Credentials, submission_id \in DOMAIN submissions :
        get_submission_scan_lines(api_token, submission_id, "id asc")

AuthDetails ==
    \E api_token \in Credentials, submission_id \in DOMAIN submissions :
        get_previous_submission_details(api_token, submission_id)

AuthLotInfo == \E api_token \in Credentials : get_lot_info(api_token, "L1", 1)

AuthCheckPrevious ==
    \E api_token \in Credentials : check_previous_submissions(api_token, "L1", 0)

NextAuth ==
    \/ AuthSeed \/ AuthValidate \/ AuthLogout \/ AuthRefresh \/ AuthCreate
    \/ AuthUpdate \/ AuthModify \/ AuthList \/ AuthLines \/ AuthDetails
    \/ AuthLotInfo \/ AuthCheckPrevious

SpecAuth == Init /\ [][NextAuth]_vars

-----------------------------------------------------------------------------
(* Claims on authentication *)

AuthenticatedOps ==
    {"logout", "refresh_token", "create_submission", "update_submission",
     "modify_submitted", "get_submissions", "get_submission_scan_lines",
     "get_previous_submission_details", "get_lot_info", "check_previous_submissions"}

\* the response r carries no record of the store
NoRecordData(r) ==
    /\ r.submission_id = 0
    /\ r.scan_lines = <<>>
    /\ r.submissions = <<>>
    /\ r.data = <<>>
    /\ r.api_token = 0
    /\ r.results = NoResults

\* C11: every operation other than login, called with a credential that is
\* missing or held by no agent, returns a failure, returns no record data
\* and changes neither the tokens nor the stored submissions and scan lines.
C11_BadCredentialFails ==
    [][(req'.op \in AuthenticatedOps /\ authenticate_sale_person(req'.api_token) = 0)
        => (/\ ~resp'.success
            /\ NoRecordData(resp')
            /\ token' = token
            /\ submissions' = submissions
            /\ scan_lines' = scan_lines)]_vars

-----------------------------------------------------------------------------
(* SpecItems: the owner's multi-item edits of one submission *)

\* an update item that names a line and supplies no field
NoFields(scan_line_id) ==
    [scan_line_id |-> scan_line_id, has_qty |-> FALSE, scanned_qty |-> 0,
     has_rack |-> FALSE, rack_id |-> 0, has_notes |-> FALSE, notes |-> ""]

\* a submission of product 1, a submission of mixed products (no product),
\* and a batch that fails in the commit phase and leaves a draft
ItemSeed ==
    /\ next_submission_id = 1
    /\ \E scan_lines_arg \in {<<ScanData(1, "", 5)>>,
                              <<ScanData(1, "", 5), ScanData(3, "", 2)>>,
                              <<ScanData(1, "", 5), ScanData(3, "", Malformed)>>} :
          create_submission(11, 1, 0, "", scan_lines_arg, 0, "")

ItemValidate ==
    \E submission_id \in DOMAIN submissions : action_validate(submission_id, 1)

\* add lists: a line of product 2; a line whose quantity float() rejects
\* before a good line; a line of an unknown lot before a good line; a good
\* line before a line whose quantity float() rejects
AddLists ==
    {<<ScanData(3, "", 4)>>,
     <<ScanData(3, "", Malformed), ScanData(1, "", 5)>>,
     <<ScanData(0, "GHOST", 1), ScanData(1, "", 5)>>,
     <<ScanData(1, "", 6), ScanData(1, "", Malformed)>>}

\* requests: an add list alone; an update without fields; an update of an
\* unknown line, an update of a stored line and a removal of a stored line
ItemRequests ==
    {<<to_add, <<>>, <<>>>> : to_add \in AddLists}
    \cup {<<<<>>, <<NoFields(l)>>, <<>>>> : l \in DOMAIN scan_lines}
    \cup {<<<<>>, <<UpdateData(9), UpdateData(l)>>, <<m>>>> :
            l \in DOMAIN scan_lines, m \in DOMAIN scan_lines}

ItemUpdate ==
    /\ next_scan_line_id <= MaxScanLines
    /\ \E submission_id \in DOMAIN submissions, r \in ItemRequests :
          update_submission(11, submission_id, r[1], r[2], r[3])

ItemModify ==
    /\ next_scan_line_id <= MaxScanLines
    /\ \E submission_id \in DOMAIN submissions, r \in ItemRequests :
          /\ Len(submissions[submission_id].messages) < MaxMessages
          /\ modify_submitted(11, submission_id, r[1], r[2], r[3])

NextItems == ItemSeed \/ ItemValidate \/ ItemUpdate \/ ItemModify

SpecItems == Init /\ [][NextItems]_vars

-----------------------------------------------------------------------------
(* SpecSession: logins, logouts and token refreshes of the three agents *)

\* no phone, the phones of agents 1 and 3, a phone nobody has
PhoneChoices == {0, 101, 103, 109}

\* no PIN, the PINs of agents 1 and 3
PinChoices == {0, 201, 203}

\* no token, and every value a token can take
TokenChoices == {0} \cup (11..(10 + MaxTokens))

SessionLogin ==
    \E mobile_phone \in PhoneChoices, pin \in PinChoices : login(mobile_phone, pin)

SessionLogout == \E api_token \in TokenChoices : logout(api_token)

SessionRefresh == \E api_token \in TokenChoices : refresh_token(api_token)

\* an authenticated call that shows which tokens are accepted
SessionList ==
    \E api_token \in TokenChoices : get_submissions(api_token, 0, 1, 0, "id desc")

NextSession == SessionLogin \/ SessionLogout \/ SessionRefresh \/ SessionList

SpecSession == Init /\ [][NextSession]_vars

-----------------------------------------------------------------------------
(* Claims on the session handlers *)

\* C16: after a successful logout or refresh_token the credential presented
\* in the request authenticates no agent; the api_token returned by
\* refresh_token authenticates the agent who presented the old one, and
\* the credential the agent holds after logout was never held by an agent.
C16_RotationRetiresToken ==
    [][(req'.op \in {"logout", "refresh_token"} /\ resp'.success) =>
          /\ authenticate_sale_person(req'.api_token) # 0
          /\ \A a \in SalePersons : token[a] # 0 => token[a] \in issued_tokens
          /\ \A a \in SalePersons : token'[a] # req'.api_token
          /\ req'.op = "refresh_token" =>
                /\ resp'.api_token # 0
                /\ \A a \in SalePersons :
                      (token'[a] = resp'.api_token)
                          <=> (a = authenticate_sale_person(req'.api_token))
          /\ req'.op = "logout" =>
                /\ token'[authenticate_sale_person(req'.api_token)] # 0
                /\ token'[authenticate_sale_person(req'.api_token)] \notin issued_tokens
                /\ resp'.api_token = 0]_vars

\* a token handed out by refresh_token was itself refreshed, after another
\* agent had logged out
C16_Witness ==
    /\ req.op = "refresh_token"
    /\ resp.success
    /\ req.api_token \notin {11, 12}
    /\ token[1] = resp.api_token
    /\ token[2] # 12

\* C17: a successful login of an agent who holds a credential rotates it:
\* the credential held before the login authenticates no agent afterwards.
C17_LoginRotates ==
    [][(req'.op = "login" /\ resp'.success /\ token[resp'.sale_person_id] # 0) =>
          \A a \in SalePersons : token'[a] # token[resp'.sale_person_id]]_vars

-----------------------------------------------------------------------------
(* Claims on the per-item results of update_submission and modify_submitted *)

EditOps == {"update_submission", "modify_submitted"}

\* C18: a successful update_submission or modify_submitted reports every
\* item of the three lists exactly once, in its success bucket or in errors:
\* the four buckets together hold as many entries as the request has items,
\* and every update item naming a line is found in updated or in errors.
C18_EveryItemReported ==
    (req.op \in EditOps /\ resp.success) =>
        /\ Len(resp.results.added) + Len(resp.results.updated)
              + Len(resp.results.removed) + Len(resp.results.errors)
           = Len(req.scan_lines_to_add) + Len(req.scan_lines_to_update)
              + Len(req.scan_lines_to_remove)
        /\ \A i \in 1..Len(req.scan_lines_to_update) :
              \/ \E j \in 1..Len(resp.results.updated) :
                    resp.results.updated[j].scan_line_id
                        = req.scan_lines_to_update[i].scan_line_id
              \/ \E j \in 1..Len(resp.results.errors) :
                    resp.results.errors[j].scan_line_id
                        = req.scan_lines_to_update[i].scan_line_id

\* an add item that is acceptable on its own
GoodAdd(scan_data, submission_id, strict) ==
    /\ ValidateLine(scan_data).success
    /\ scan_data.scanned_qty # Malformed
    /\ ~ProductMismatch(submissions[submission_id],
                        ResolveLot(scan_data.lot_id, scan_data.lot_name), strict)

\* line id is an editable line of the submission before the request
EditableIn(id, submission_id, strict) ==
    /\ id \in DOMAIN scan_lines
    /\ scan_lines[id].submission_id = submission_id
    /\ LineEditable(scan_lines[id], strict)

\* C19: in a request that passes the checks on the submission, a failing
\* item never keeps another item from being processed: every add item that
\* is acceptable on its own creates a line, every update item with a
\* quantity naming an editable line is applied unless the line is removed by
\* the same request, and every remove item naming an editable line removes it.
C19_FailingItemIsolated ==
    [][(/\ req'.op \in EditOps
        /\ EditEarlyError(req'.api_token, req'.submission_id,
                          req'.op = "modify_submitted") = "")
        => LET strict == (req'.op = "modify_submitted")
               to_add == req'.scan_lines_to_add
               to_update == req'.scan_lines_to_update
               to_remove == req'.scan_lines_to_remove
           IN  /\ Cardinality(DOMAIN scan_lines' \ DOMAIN scan_lines)
                    = Cardinality({i \in 1..Len(to_add) :
                                      GoodAdd(to_add[i], req'.submission_id, strict)})
               /\ \A i \in 1..Len(to_update) :
                     (/\ to_update[i].has_qty
                      /\ to_update[i].scan_line_id # Malformed
                      /\ EditableIn(to_update[i].scan_line_id, req'.submission_id, strict))
                     => \/ to_update[i].scan_line_id \notin DOMAIN scan_lines'
                        \/ scan_lines'[to_update[i].scan_line_id].scanned_qty
                              = to_update[i].scanned_qty
               /\ \A i \in 1..Len(to_remove) :
                     EditableIn(to_remove[i], req'.submission_id, strict)
                     => to_remove[i] \notin DOMAIN scan_lines']_vars

ProductError ==
    "Cannot add a scan line with product ID %s to a submission with product ID %s."

\* C20: modify_submitted on a submission whose product_id is set creates no
\* scan line of another product and, when it answers success, reports each
\* such add item in errors; on a submission whose product_id is unset it
\* accepts the lines of any product.
C20_ModifyRejectsOtherProduct ==
    [][(/\ req'.op = "modify_submitted"
        /\ EditEarlyError(req'.api_token, req'.submission_id, TRUE) = "")
        => LET submission == submissions[req'.submission_id]
               to_add == req'.scan_lines_to_add
               valid == {i \in 1..Len(to_add) : ValidateLine(to_add[i]).success}
               other == {i \in valid :
                            /\ submission.product_id # 0
                            /\ ValidateLine(to_add[i]).product_id # submission.product_id}
               created == DOMAIN scan_lines' \ DOMAIN scan_lines
           IN  /\ submission.product_id # 0 =>
                     \A l \in created : scan_lines'[l].product_id = submission.product_id
               /\ resp'.success =>
                     /\ \A i \in other :
                           \E j \in 1..Len(resp'.results.errors) :
                               /\ resp'.results.errors[j].lot_id = to_add[i].lot_id
                               /\ resp'.results.errors[j].error = ProductError
                     /\ Cardinality(created) = Cardinality(valid \ other)
                     /\ Len(resp'.results.added) = Cardinality(valid \ other)]_vars

\* modify_submitted refused a line of product 2 and added a line of product 1
\* to a submission of product 1
C20_Witness ==
    /\ req.op = "modify_submitted"
    /\ resp.success
    /\ submissions[req.submission_id].product_id = 1
    /\ Len(resp.results.added) = 1
    /\ \E j \in 1..Len(resp.results.errors) :
          resp.results.errors[j].lot_id = 3 /\ resp.results.errors[j].error = ProductError

\* C21: update_submission on a submission that is neither draft nor
\* submitted, and modify_submitted on a submission that is not submitted,
\* called by an authenticated agent, fail with the state error and leave
\* every submission and every scan line as it was.
C21_UneditableSubmissionUntouched ==
    [][(/\ req'.op \in EditOps
        /\ authenticate_sale_person(req'.api_token) # 0
        /\ req'.submission_id \in DOMAIN submissions
        /\ IF req'.op = "modify_submitted"
           THEN submissions[req'.submission_id].state # "submitted"
           ELSE submissions[req'.submission_id].state \notin {"draft", "submitted"})
        => (/\ ~resp'.success
            /\ resp'.error = IF req'.op = "modify_submitted"
                             THEN "Only submissions in 'submitted' state can be modified with this endpoint"
                             ELSE "Only draft or submitted submissions can be modified"
            /\ resp'.results = NoResults
            /\ submissions' = submissions
            /\ scan_lines' = scan_lines)]_vars

\* the owner's modify_submitted with an add list was refused on a draft
\* submission that owns a line
C21_Witness ==
    /\ req.op = "modify_submitted"
    /\ req.submission_id \in DOMAIN submissions
    /\ submissions[req.submission_id].state = "draft"
    /\ submissions[req.submission_id].sale_person_id = authenticate_sale_person(req.api_token)
    /\ Len(req.scan_lines_to_add) > 0
    /\ LinesOf(scan_lines, req.submission_id) # {}
    /\ ~resp.success

-----------------------------------------------------------------------------
(* SpecRead: the read operations over the submissions of two agents *)

\* agent 1 counts lot 1 in project 1; agent 2 counts lots 1 and 3 in
\* project 2 (another location); agent 2 sends to project 1 a batch whose
\* second line fails, which leaves a draft submission with a line of lot 1
ReadSeeds ==
    <<<<11, 1, <<ScanData(1, "", 5)>>>>,
      <<12, 2, <<ScanData(1, "", 4), ScanData(3, "", 2)>>>>,
      <<12, 1, <<ScanData(1, "", 3), ScanData(3, "", Malformed)>>>>>>

\* the requests arrive in that order, and start over after the third
ReadSeed ==
    /\ next_submission_id <= MaxSubmissions
    /\ LET r == ReadSeeds[((next_submission_id - 1) % 3) + 1]
       IN  create_submission(r[1], r[2], 0, "", r[3], 0, "")

ReadValidate ==
    \E submission_id \in DOMAIN submissions, advance \in {0, 1} :
        action_validate(submission_id, advance)

ReadCheckPrevious ==
    \E api_token \in {11, 12}, lot_name \in {"L1", "L3"}, location_id \in {0, 1, 2} :
        check_previous_submissions(api_token, lot_name, location_id)

ReadDetails ==
    \E api_token \in {11, 12}, submission_id \in DOMAIN submissions :
        get_previous_submission_details(api_token, submission_id)

ReadLotInfo ==
    \E lot_name \in {"L1", "L2", "L3", "GHOST"}, location_id \in {1, 2} :
        get_lot_info(11, lot_name, location_id)

ReadList ==
    \E api_token \in {11, 12} : get_submissions(api_token, 0, 0, 0, "id desc")

ReadLines ==
    \E api_token \in {11, 12}, submission_id \in DOMAIN submissions :
        get_submission_scan_lines(api_token, submission_id, "id asc")

NextRead ==
    \/ ReadSeed \/ ReadValidate \/ ReadCheckPrevious \/ ReadDetails
    \/ ReadLotInfo \/ ReadList \/ ReadLines

SpecRead == Init /\ [][NextRead]_vars

-----------------------------------------------------------------------------
(* Claims on the read operations *)

\* the validated submissions with a line of the lot named by the request,
\* at the requested location when one is given
ValidatedWithLot ==
    {s \in DOMAIN submissions :
        /\ submissions[s].state = "validated"
        /\ LotLinesOf(s, LotByName(req.lot_name)) # {}
        /\ (req.location_id # 0 =>
               ProjectLocation[submissions[s].project_id] = req.location_id)}

\* C23: check_previous_submissions returns exactly the validated
\* submissions that own a scan line of the named lot (at the given
\* location when one is supplied), each once, by validation timestamp
\* descending; each lists only its lines of that lot; has_previous is true
\* exactly when the list is non-empty; no draft or submitted submission is
\* returned.
C23_CheckPreviousExact ==
    (req.op = "check_previous_submissions" /\ resp.success) =>
        LET n == Len(resp.submissions)
        IN  /\ {resp.submissions[i].id : i \in 1..n} = ValidatedWithLot
            /\ n = Cardinality(ValidatedWithLot)
            /\ \A i \in 1..n :
                  submissions[resp.submissions[i].id].state \notin {"draft", "submitted"}
            /\ \A i, j \in 1..n :
                  i < j => resp.submissions[i].validation_datetime
                              >= resp.submissions[j].validation_datetime
            /\ \A i \in 1..n :
                  /\ resp.submissions[i].validation_datetime =
                        submissions[resp.submissions[i].id].validation_datetime
                  /\ {resp.submissions[i].scan_lines[k].id :
                         k \in 1..Len(resp.submissions[i].scan_lines)}
                       = LotLinesOf(resp.submissions[i].id, LotByName(req.lot_name))
            /\ resp.has_previous = (n > 0)

\* two submissions validated at different times are returned, one of them
\* with a line of another lot, while a draft submission holds the lot too
C23_Witness ==
    /\ req.op = "check_previous_submissions"
    /\ resp.success
    /\ Len(resp.submissions) = 2
    /\ resp.submissions[1].validation_datetime > resp.submissions[2].validation_datetime
    /\ \E i \in 1..2 :
          LinesOf(scan_lines, resp.submissions[i].id)
             # LotLinesOf(resp.submissions[i].id, LotByName(req.lot_name))
    /\ \E s \in DOMAIN submissions :
          /\ submissions[s].state = "draft"
          /\ LotLinesOf(s, LotByName(req.lot_name)) # {}

\* the sum of the quantities of the first n ledger entries with exactly
\* this product, lot and location
RECURSIVE LedgerSum(_, _, _, _)
LedgerSum(n, product, lot, location) ==
    IF n = 0 THEN 0
    ELSE LedgerSum(n - 1, product, lot, location)
            + (IF /\ StockQuants[n].product_id = product
                  /\ StockQuants[n].lot_id = lot
                  /\ StockQuants[n].location_id = location
               THEN StockQuants[n].quantity ELSE 0)

\* a get_lot_info request of an authenticated agent for a lot and a
\* location that exist
LotInfoRequest ==
    /\ req.op = "get_lot_info"
    /\ authenticate_sale_person(req.api_token) # 0
    /\ LotByName(req.lot_name) # 0
    /\ req.location_id \in Locations

\* C24: get_lot_info reports lot_stock as the sum of the ledger quantities
\* of the entries with exactly the lot's product, the lot and the requested
\* location, and reports 0, not an error, when the ledger has no entry for
\* that lot at that location.
C24_LotStockIsLedgerSum ==
    LotInfoRequest =>
        /\ resp.success
        /\ resp.data[1].lot_stock =
              LedgerSum(Len(StockQuants), LotProduct[LotByName(req.lot_name)],
                        LotByName(req.lot_name), req.location_id)
        /\ (~\E i \in 1..Len(StockQuants) :
                /\ StockQuants[i].lot_id = LotByName(req.lot_name)
                /\ StockQuants[i].location_id = req.location_id)
              => resp.data[1].lot_stock = 0

\* lot 1 at location 1: two entries of its product are summed, the entry
\* booked under another product and the entry at location 2 are not
C24_Witness ==
    /\ LotInfoRequest
    /\ req.lot_name = "L1"
    /\ req.location_id = 1
    /\ resp.success
    /\ resp.data[1].lot_stock = 7

\* the sum of scanned_qty over the validated lines of the lot among S
RECURSIVE ValidatedQty(_, _)
ValidatedQty(lot, S) ==
    IF S = {} THEN 0
    ELSE LET l == CHOOSE x \in S : TRUE
         IN  ValidatedQty(lot, S \ {l})
                + (IF scan_lines[l].lot_id = lot /\ scan_lines[l].state = "validated"
                   THEN scan_lines[l].scanned_qty ELSE 0)

\* C25: get_lot_info reports lot_inventoried_stock as the sum of
\* scanned_qty over all scan lines of that lot whose state is validated,
\* across every project and location; draft and submitted lines never
\* contribute, and the value is 0 when there is no validated line.
C25_InventoriedIsValidatedSum ==
    LotInfoRequest =>
        /\ resp.success
        /\ resp.data[1].lot_inventoried_stock =
              ValidatedQty(LotByName(req.lot_name), DOMAIN scan_lines)
        /\ (~\E l \in DOMAIN scan_lines :
                /\ scan_lines[l].lot_id = LotByName(req.lot_name)
                /\ scan_lines[l].state = "validated")
              => resp.data[1].lot_inventoried_stock = 0

\* validated lines of the lot in two projects at two locations are summed
\* while a line of the lot that is not validated exists
C25_Witness ==
    /\ LotInfoRequest
    /\ resp.success
    /\ resp.data[1].lot_inventoried_stock = 9
    /\ \E k, l \in DOMAIN scan_lines :
          /\ scan_lines[k].lot_id = LotByName(req.lot_name)
          /\ scan_lines[l].lot_id = LotByName(req.lot_name)
          /\ scan_lines[k].state = "validated"
          /\ scan_lines[l].state = "validated"
          /\ ProjectLocation[submissions[scan_lines[k].submission_id].project_id]
                # ProjectLocation[submissions[scan_lines[l].submission_id].project_id]
    /\ \E l \in DOMAIN scan_lines :
          /\ scan_lines[l].lot_id = LotByName(req.lot_name)
          /\ scan_lines[l].state # "validated"

\* the operations that return submissions or their scan lines
ReadOps ==
    {"get_submissions", "get_submission_scan_lines",
     "get_previous_submission_details", "check_previous_submissions"}

\* the submissions a response speaks of: the one it is about, the listed
\* ones, and the owners of the scan lines it carries
ReturnedSubmissions ==
    (IF resp.submission_id # 0 THEN {resp.submission_id} ELSE {})
    \cup {resp.submissions[i].id : i \in 1..Len(resp.submissions)}
    \cup {scan_lines[resp.scan_lines[i].id].submission_id : i \in 1..Len(resp.scan_lines)}

\* C30: no read operation (get_submissions, get_submission_scan_lines,
\* get_previous_submission_details, check_previous_submissions) returns to
\* an authenticated agent the details or scan lines of a submission owned
\* by a different agent.
C30_ReadsOnlyOwnSubmissions ==
    (req.op \in ReadOps /\ resp.success) =>
        \A s \in ReturnedSubmissions :
            submissions[s].sale_person_id = authenticate_sale_person(req.api_token)

-----------------------------------------------------------------------------
(* SpecConcurrent: two agents send a batch to the same running project and *)
(* the two calls interleave statement by statement                         *)

\* a good batch of full length, a good one-line batch, a batch with an
\* unknown lot, a batch whose second quantity float() rejects, no lines
ConcBatches ==
    {[i \in 1..MaxBatch |-> IF i % 2 = 1 THEN ScanData(1, "", 5) ELSE ScanData(3, "", 2)],
     <<ScanData(2, "", 3)>>,
     <<ScanData(1, "", 5), ScanData(0, "GHOST", 1)>>,
     <<ScanData(1, "", 5), ScanData(3, "", Malformed)>>,
     <<>>}

ConcBegin ==
    \E a \in Requesters, scan_lines_arg \in ConcBatches : CreateBegin(a, 1, scan_lines_arg)

ConcLine == \E a \in Requesters : CreateLine(a)

ConcSubmit == \E a \in Requesters : CreateSubmit(a)

NextConcurrent == ConcBegin \/ ConcLine \/ ConcSubmit

SpecConcurrent == Init /\ [][NextConcurrent]_vars

\* what the request yields when it is the only one: success when it has
\* lines, all valid, with quantities float() accepts
SucceedsAlone(scan_lines_arg) ==
    /\ Len(scan_lines_arg) > 0
    /\ ~HasInvalidLine(scan_lines_arg)
    /\ \A i \in 1..Len(scan_lines_arg) : scan_lines_arg[i].scanned_qty # Malformed

\* C29: under any interleaving of two create_submission requests of
\* different agents on the same running project, each request that
\* succeeds yields its own distinct submission, owned by its requester and
\* owning exactly the scan lines of its own request; no scan line is
\* attached to the other agent's submission, and the outcome of a request
\* is the one it has alone.
C29_ConcurrentCreatesIndependent ==
    \A a \in Requesters :
        inflight[a].pc = "done" =>
            LET call == inflight[a]
                id == call.resp.submission_id
                n == Len(call.scan_lines)
            IN  /\ call.resp.success = SucceedsAlone(call.scan_lines)
                /\ call.resp.success =>
                      /\ id = call.submission_id
                      /\ id \in DOMAIN submissions
                      /\ submissions[id].sale_person_id = a
                      /\ submissions[id].project_id = call.project_id
                      /\ submissions[id].state = "submitted"
                      /\ \A b \in Requesters \ {a} : inflight[b].submission_id # id
                      /\ Len(call.resp.scan_lines) = n
                      /\ Cardinality(LinesOf(scan_lines, id)) = n
                      /\ LinesOf(scan_lines, id)
                            = {call.resp.scan_lines[k].scan_id : k \in 1..n}
                      /\ \A k \in 1..n :
                            LET line == scan_lines[call.resp.scan_lines[k].scan_id]
                            IN  /\ line.lot_id = call.scan_lines[k].lot_id
                                /\ line.scanned_qty = call.scan_lines[k].scanned_qty
                                /\ line.sale_person_id = a
                                /\ line.state = "submitted"
                /\ \A l \in DOMAIN scan_lines :
                      scan_lines[l].submission_id = call.submission_id
                         => scan_lines[l].sale_person_id = a

\* both requests succeeded and their scan lines were created in turns
C29_Witness ==
    /\ \A a \in Requesters : inflight[a].pc = "done" /\ inflight[a].resp.success
    /\ \E l, m, n \in DOMAIN scan_lines :
          /\ l < m
          /\ m < n
          /\ scan_lines[l].submission_id = scan_lines[n].submission_id
          /\ scan_lines[l].submission_id # scan_lines[m].submission_id

-----------------------------------------------------------------------------
(* SpecRace: an edit that adds lines interleaves with the validation of    *)
(* the submission it edits                                                 *)

\* each agent sends one batch of one line of lot 1
RaceSeed ==
    /\ next_submission_id < MaxSubmissions
    /\ \E api_token \in {11, 12} :
          create_submission(api_token, 1, 0, "", <<ScanData(1, "", 5)>>, 0, "")

RaceValidate ==
    \E submission_id \in DOMAIN submissions : action_validate(submission_id, 1)

\* one more line of lot 1, or two
RaceBegin ==
    \E a \in Requesters, strict \in BOOLEAN, submission_id \in DOMAIN submissions,
       to_add \in {<<ScanData(1, "", 4)>>, <<ScanData(1, "", 4), ScanData(2, "", 1)>>} :
        EditBegin(a, strict, submission_id, to_add)

RaceAdd == \E a \in Requesters : EditAddItem(a)

RaceReturn == \E a \in Requesters : EditReturn(a)

NextRace == RaceSeed \/ RaceValidate \/ RaceBegin \/ RaceAdd \/ RaceReturn

SpecRace == Init /\ [][NextRace]_vars

\* C32: under any interleaving of update_submission or modify_submitted
\* with the validation of the same submission, no scan line is added to,
\* updated in or removed from a submission after it has reached validated.
C32_NoWriteAfterValidated ==
    [][\A s \in DOMAIN submissions :
          submissions[s].state = "validated" =>
              /\ LinesOf(scan_lines', s) = LinesOf(scan_lines, s)
              /\ \A l \in LinesOf(scan_lines, s) : scan_lines'[l] = scan_lines[l]]_vars

-----------------------------------------------------------------------------
(* SpecRotate: two clients rotate credentials at the same time *)

\* the credentials of agents 1 and 2, and none
RotateBeginAny ==
    \E c \in Requesters, op \in {"refresh_token", "logout"}, api_token \in {0, 11, 12} :
        RotateBegin(c, op, api_token)

RotateWriteAny == \E c \in Requesters : RotateWrite(c)

NextRotate == RotateBeginAny \/ RotateWriteAny

SpecRotate == Init /\ [][NextRotate]_vars

\* C33: credential rotation is an atomic compare-and-set: of two
\* refresh_token or logout requests that carry the same valid credential
\* and interleave, at most one succeeds, and every api_token returned by a
\* successful refresh_token authenticates the agent once both requests have
\* completed.
C33_RotationIsCompareAndSet ==
    (\A c \in Requesters : inflight[c].pc = "done") =>
        /\ (\A c, d \in Requesters :
                (c # d /\ inflight[c].api_token = inflight[d].api_token)
                   => ~(inflight[c].resp.success /\ inflight[d].resp.success))
        /\ \A c \in Requesters :
              (inflight[c].op = "refresh_token" /\ inflight[c].resp.success)
                 => authenticate_sale_person(inflight[c].resp.api_token)
                       = inflight[c].sale_person

-----------------------------------------------------------------------------
(* SpecRack: batches with a rack on the request, on a line, on both *)

\* a line without rack key, with a rack, with an empty rack key, with a
\* rack that does not exist
RackLine(has_rack, rack_id) ==
    [ScanData(1, "", 5) EXCEPT !.has_rack = has_rack, !.rack_id = rack_id]

RackLineChoices ==
    {RackLine(FALSE, 0), RackLine(TRUE, 2), RackLine(TRUE, 0), RackLine(TRUE, 9)}

\* the request names no rack, a rack, a rack that does not exist, or a
\* value int() rejects
RackCreate ==
    /\ next_submission_id < MaxBatchSubmissions
    /\ \E rack_id \in {0, 1, 2, 9, Malformed}, scan_lines_arg \in SeqsUpTo(RackLineChoices, 2) :
          create_submission(11, 1, rack_id, "", scan_lines_arg, 0, "")

RackRead ==
    \E submission_id \in DOMAIN submissions :
        get_submission_scan_lines(11, submission_id, "id asc")

NextRack == RackCreate \/ RackRead

SpecRack == Init /\ [][NextRack]_vars

\* C34: every scan line created by create_submission has as rack the
\* line's own rack when the line supplies one, and otherwise the rack
\* recorded on the submission; a line never carries a default rack that the
\* submission does not carry.
C34_LineRackIsOverrideOrDefault ==
    [][req'.op = "create_submission" =>
          \A l \in DOMAIN scan_lines' \ DOMAIN scan_lines :
              LET scan_data == req'.scan_lines[l - next_scan_line_id + 1]
              IN  scan_lines'[l].rack_id =
                     IF scan_data.has_rack /\ ~Falsy(scan_data.rack_id)
                     THEN scan_data.rack_id
                     ELSE submissions'[scan_lines'[l].submission_id].rack_id]_vars

-----------------------------------------------------------------------------
(* SpecSparse: updates that supply any subset of quantity, rack and notes *)

\* one submission of two lines of lot 1, the second on rack 1
SparseSeed ==
    /\ next_submission_id = 1
    /\ create_submission(11, 1, 0, "", <<ScanData(1, "", 5), RackLine(TRUE, 1)>>, 0, "")

SparseValidate ==
    \E submission_id \in DOMAIN submissions : action_validate(submission_id, 1)

\* an update item: quantity 7, rack 2 or an empty rack, notes "u", each
\* supplied or not
SparseData(scan_line_id, has_qty, has_rack, rack_id, has_notes) ==
    [scan_line_id |-> scan_line_id, has_qty |-> has_qty, scanned_qty |-> 7,
     has_rack |-> has_rack, rack_id |-> rack_id, has_notes |-> has_notes, notes |-> "u"]

SparseItems ==
    {SparseData(l, q, r, rack_id, n) :
        l \in DOMAIN scan_lines, q \in BOOLEAN, r \in BOOLEAN, rack_id \in {0, 2},
        n \in BOOLEAN}

SparseUpdate ==
    \E submission_id \in DOMAIN submissions, update_data \in SparseItems :
        update_submission(11, submission_id, <<>>, <<update_data>>, <<>>)

SparseModify ==
    \E submission_id \in DOMAIN submissions, update_data \in SparseItems :
        /\ Len(submissions[submission_id].messages) < MaxMessages
        /\ modify_submitted(11, submission_id, <<>>, <<update_data>>, <<>>)

NextSparse == SparseSeed \/ SparseValidate \/ SparseUpdate \/ SparseModify

SpecSparse == Init /\ [][NextSparse]_vars

\* the fields of a submission other than the messages posted on it
SubmissionFields(submission) == [submission EXCEPT !.messages = <<>>]

\* C35: a successful update of a scan line changes only the fields
\* supplied among quantity, rack and notes: a field not supplied keeps its
\* value, the line's lot, product, state, owning submission and agent never
\* change, and no other scan line or submission is modified.
C35_UpdateChangesOnlySupplied ==
    [][(/\ req'.op \in EditOps
        /\ resp'.success
        /\ Len(req'.scan_lines_to_update) = 1
        /\ Len(resp'.results.updated) = 1) =>
          LET update_data == req'.scan_lines_to_update[1]
              id == update_data.scan_line_id
              old == scan_lines[id]
              new == scan_lines'[id]
          IN  /\ resp'.results.updated[1].scan_line_id = id
              /\ DOMAIN scan_lines' = DOMAIN scan_lines
              /\ new.lot_id = old.lot_id
              /\ new.lot_name = old.lot_name
              /\ new.product_id = old.product_id
              /\ new.project_id = old.project_id
              /\ new.state = old.state
              /\ new.submission_id = old.submission_id
              /\ new.sale_person_id = old.sale_person_id
              /\ (~update_data.has_qty => new.scanned_qty = old.scanned_qty)
              /\ (~update_data.has_rack => new.rack_id = old.rack_id)
              /\ (~update_data.has_notes => new.notes = old.notes)
              /\ \A l \in DOMAIN scan_lines \ {id} : scan_lines'[l] = scan_lines[l]
              /\ DOMAIN submissions' = DOMAIN submissions
              /\ \A s \in DOMAIN submissions :
                    SubmissionFields(submissions'[s]) = SubmissionFields(submissions[s])]_vars

\* an update that supplied only the notes went through on the line that
\* sits on a rack, next to another line
C35_Witness ==
    /\ req.op \in EditOps
    /\ resp.success
    /\ Len(req.scan_lines_to_update) = 1
    /\ Len(resp.results.updated) = 1
    /\ ~req.scan_lines_to_update[1].has_qty
    /\ ~req.scan_lines_to_update[1].has_rack
    /\ req.scan_lines_to_update[1].has_notes
    /\ scan_lines[req.scan_lines_to_update[1].scan_line_id].rack_id = 1
    /\ scan_lines[req.scan_lines_to_update[1].scan_line_id].scanned_qty = 5
    /\ Cardinality(DOMAIN scan_lines) = 2

-----------------------------------------------------------------------------
(* SpecChain: re-inventories of re-inventories *)

\* explicit references: none, a stored submission, the id the new
\* submission is about to get, the id after that
ChainCreate ==
    /\ next_submission_id <= MaxSubmissions
    /\ \E previous_submission_id \in (0..(next_submission_id + 1)),
          scanned_lot_name \in {"", "L1"} :
          create_submission(11, 1, 0, "", <<ScanData(1, "", 5)>>,
                            previous_submission_id, scanned_lot_name)

ChainValidate ==
    \E submission_id \in DOMAIN submissions, advance \in {0, 1} :
        action_validate(submission_id, advance)

NextChain == ChainCreate \/ ChainValidate

SpecChain == Init /\ [][NextChain]_vars

\* the submission reached from s by following previous_submission_id n
\* times, 0 when the chain ends before
RECURSIVE Follow(_, _)
Follow(s, n) ==
    IF n = 0 THEN s
    ELSE LET t == Follow(s, n - 1)
         IN  IF t \in DOMAIN submissions THEN submissions[t].previous_submission_id
             ELSE 0

\* C36: in every reachable state the previous_submission_id links form no
\* cycle: no submission reaches itself by following previous_submission_id
\* one or more times.
C36_LinksFormNoCycle ==
    \A s \in DOMAIN submissions :
        \A n \in 1..Cardinality(DOMAIN submissions) : Follow(s, n) # s

\* a chain of two links: a re-inventory of a re-inventory
C36_Witness ==
    \E s \in DOMAIN submissions :
        /\ Follow(s, 1) \in DOMAIN submissions
        /\ Follow(s, 2) \in DOMAIN submissions
        /\ req.op = "create_submission"
        /\ resp.success
        /\ resp.submission_id = s

\* C37: for the same record-store contents and the same request, the
\* auto-detect heuristic of create_submission always selects the same
\* previous submission, also when several validated submissions holding
\* the lot share the greatest validation timestamp.
C37_HeuristicIsDeterministic ==
    [][(/\ req'.op = "create_submission"
        /\ resp'.success
        /\ req'.previous_submission_id = 0
        /\ req'.scanned_lot_name # "") =>
          \A link \in LinkChoices(req'.project_id, req'.notes, req'.previous_submission_id,
                                  req'.scanned_lot_name) :
              link.previous_submission_id
                 = submissions'[resp'.submission_id].previous_submission_id]_vars

-----------------------------------------------------------------------------
(* SpecProject: requests against a project whose campaign is closed *)

ProjectCreate ==
    /\ next_submission_id < MaxSubmissions
    /\ \E project_id \in {1, 2}, scan_data \in {ScanData(1, "", 5), ScanData(3, "", 2)} :
          create_submission(11, project_id, 0, "", <<scan_data>>, 0, "")

ProjectComplete == \E project_id \in {1, 2} : project_complete(project_id)

ProjectUpdate ==
    /\ next_scan_line_id <= MaxScanLines
    /\ \E submission_id \in DOMAIN submissions :
          update_submission(11, submission_id, <<ScanData(1, "", 4)>>, <<>>, <<>>)

ProjectModify ==
    /\ next_scan_line_id <= MaxScanLines
    /\ \E submission_id \in DOMAIN submissions :
          /\ Len(submissions[submission_id].messages) < MaxMessages
          /\ modify_submitted(11, submission_id, <<ScanData(1, "", 4)>>, <<>>, <<>>)

NextProject == ProjectCreate \/ ProjectComplete \/ ProjectUpdate \/ ProjectModify

SpecProject == Init /\ [][NextProject]_vars

\* C38: a scan line is only ever created for a project that is
\* in_progress at the time the line is created, by create_submission and by
\* update_submission or modify_submitted alike.
C38_LinesOnlyForRunningProject ==
    [][\A l \in DOMAIN scan_lines' \ DOMAIN scan_lines :
          project_state[scan_lines'[l].project_id] = "in_progress"]_vars

-----------------------------------------------------------------------------
(* Claims on the outcome of an edit as a whole *)

\* C39: when update_submission or modify_submitted returns success=false,
\* no scan line has been added, updated or removed by that call.
C39_FailedEditLeavesStore ==
    [][(req'.op \in EditOps /\ ~resp'.success) => scan_lines' = scan_lines]_vars

\* C40: in every state reachable by create_submission, update_submission
\* and modify_submitted calls, every persisted submission in state
\* submitted owns at least one scan line.
C40_SubmittedOwnsALine ==
    \A s \in DOMAIN submissions :
        submissions[s].state = "submitted" => LinesOf(scan_lines, s) # {}


=============================================================================
